---- MODULE Spec2Model ----
(***************************************************************************)
(* Order / position ledger of algo_trading (position_handler.py):          *)
(* OperationHandler with its Order and Position objects and the two        *)
(* pickle logs it appends to through DataStorage; and the account of the   *)
(* handler, AccountHandler (account_handler.py).                           *)
(*                                                                         *)
(* Objects are kept in two arenas (orderObjs, positionObjs); a handle is   *)
(* the index of an object in its arena and stands for the Python object    *)
(* reference.  The lists of the handler (pending_orders, positions) hold   *)
(* handles.  Prices, quantities and times are small integers.              *)
(***************************************************************************)
EXTENDS Integers, Sequences, FiniteSets, TLC

\* ------------------------------------------------------------------ bounds
MaxOrders    == 2   \* Order objects created between two resets
MaxPositions == 2   \* Position objects created between two resets
MaxQty       == 2   \* the quantity of an order; closes ask for 0..MaxQty+1
InitialBalance == 10 \* initial_balance given to the constructor
MaxOther == 1       \* Order objects, and Position objects, of the second handler
MaxPnL == 15        \* realized_pnl of the account stays within -MaxPnL .. MaxPnL
MaxMargin == 5      \* total_margin of the account stays within -MaxMargin .. MaxMargin

\* ------------------------------------------------------------ Python values
\* Both are numbers no price, quantity, time or profit of the model takes.
None   == -999      \* Python None of an Optional[number] field
Absent == -998      \* a keyword that is not in **kwargs

\* Python truthiness of an Optional[number]: None and 0 are falsy.
Truthy(x) == x # None /\ x # 0

NoError == ""       \* no exception was raised

\* OrderType, OrderStatus, PositionStatus
OrderType      == {"BUY", "SELL", "MODIFY", "CLOSE"}
OrderStatus    == {"PENDING", "EXECUTED", "CANCELLED"}
PositionStatus == {"ACTIVE", "CLOSED"}

\* ------------------------------------------------------------------- state
VARIABLES
    orderObjs,          \* arena of Order objects (handle -> fields)
    positionObjs,       \* arena of Position objects (handle -> fields)
    pending_orders,     \* self.pending_orders, a list of order handles
    positions,          \* self.positions, a list of position handles
    current_balance,    \* self.current_balance
    order_counter,      \* self._order_counter
    position_counter,   \* self._position_counter
    historical_orders,  \* records appended to historical_orders.pkl
    closed_positions,   \* records appended to closed_positions.pkl
    raised,             \* the exception the last call raised, and the call
    last_order_id,      \* history (not in the code): the id create_order gave
                        \* last, 0 before the first order; reset keeps it
    other,              \* a second OperationHandler of the same process: its
                        \* objects, lists, balance and counters
    account             \* the AccountHandler: its attributes; position_handler
                        \* tells whether the handler above was given to it

ledgerVars == <<orderObjs, positionObjs, pending_orders, positions, current_balance,
                order_counter, position_counter, historical_orders, closed_positions>>
vars == <<orderObjs, positionObjs, pending_orders, positions, current_balance,
          order_counter, position_counter, historical_orders, closed_positions, raised,
          last_order_id, other, account>>

\* The handler as one value; raised is the message of the exception that is
\* propagating (NoError when none), sink_ok whether appends to the files work.
Ledger(ok) ==
    [orderObjs |-> orderObjs, positionObjs |-> positionObjs,
     pending_orders |-> pending_orders, positions |-> positions,
     current_balance |-> current_balance,
     order_counter |-> order_counter, position_counter |-> position_counter,
     historical_orders |-> historical_orders, closed_positions |-> closed_positions,
     raised |-> NoError, sink_ok |-> ok]

\* ----------------------------------------------------------------- helpers
RECURSIVE IndexOf(_, _, _)
IndexOf(s, x, i) ==
    IF i > Len(s) THEN 0 ELSE IF s[i] = x THEN i ELSE IndexOf(s, x, i + 1)

\* s without its element at index i
RemoveAt(s, i) == SubSeq(s, 1, i - 1) \o SubSeq(s, i + 1, Len(s))

InSeq(s, x) == \E i \in DOMAIN s : s[i] = x

RECURSIVE SumQty(_, _)
SumQty(f, S) ==
    IF S = {} THEN 0
    ELSE LET x == CHOOSE y \in S : TRUE IN f[x] + SumQty(f, S \ {x})

\* ------------------------------------------------------------------ objects
\* Position.__init__.  cut_from is a history field (not in the code): the
\* handle of the position a partial-close slice was cut from, 0 otherwise.
Position(position_id, type, open_price, quantity, sl, tp, open_time, cut_from) ==
    [position_id |-> position_id, type |-> type, open_price |-> open_price,
     quantity |-> quantity, sl |-> sl, tp |-> tp, open_time |-> open_time,
     status |-> "ACTIVE", close_price |-> None, close_time |-> None,
     profit_loss |-> None, reason |-> "None", cut_from |-> cut_from]

\* Position.close with a fault: a SELL position's profit is computed as a BUY's
Position_close_as_buy(p, close_price, close_time, reason) ==
    IF p.status # "ACTIVE" THEN p
    ELSE [p EXCEPT !.close_price = close_price,
                   !.close_time = close_time,
                   !.profit_loss = (close_price - p.open_price) * p.quantity,
                   !.status = "CLOSED",
                   !.reason = reason]

\* Position.close
Position_close(p, close_price, close_time, reason) ==
    IF p.status # "ACTIVE" THEN p
    ELSE [p EXCEPT !.close_price = close_price,
                   !.close_time = close_time,
                   !.profit_loss = IF p.type = "BUY"
                                   THEN (close_price - p.open_price) * p.quantity
                                   ELSE IF p.type = "SELL"
                                   THEN (p.open_price - close_price) * p.quantity
                                   ELSE p.profit_loss,
                   !.status = "CLOSED",
                   !.reason = reason]

\* Order.__init__
Order(order_id, type, price, quantity, sl, tp, max_time_active, creation_time) ==
    [order_id |-> order_id, type |-> type, price |-> price, quantity |-> quantity,
     sl |-> sl, tp |-> tp, status |-> "PENDING",
     max_time_active |-> max_time_active, creation_time |-> creation_time,
     reason |-> "None", position_reference |-> 0]

\* Order.cancel
Order_cancel(o, reason) ==
    IF o.status # "PENDING" THEN o
    ELSE [o EXCEPT !.status = "CANCELLED", !.reason = reason]

\* ------------------------------------------------------------- validation
\* _validate_order_params with a fault: a BUY order's stop-loss may equal the
\* price
_validate_order_params_strict(type, price, quantity, sl, tp, max_time_active) ==
    IF price <= 0 THEN "Price must be greater than zero."
    ELSE IF quantity <= 0 THEN "Quantity must be greater than zero."
    ELSE IF max_time_active # None /\ max_time_active <= 0
         THEN "Max time active must be greater than zero."
    ELSE IF type = "BUY" /\ sl # None /\ sl > price
         THEN "Stop-loss for a BUY order must be below the entry price."
    ELSE IF type = "BUY" /\ tp # None /\ tp <= price
         THEN "Take-profit for a BUY order must be above the entry price."
    ELSE IF type = "SELL" /\ sl # None /\ sl <= price
         THEN "Stop-loss for a SELL order must be above the entry price."
    ELSE IF type = "SELL" /\ tp # None /\ tp >= price
         THEN "Take-profit for a SELL order must be below the entry price."
    ELSE NoError

\* _validate_order_params: the message of the ValueError it raises, NoError
\* when it returns.
_validate_order_params(type, price, quantity, sl, tp, max_time_active) ==
    IF price <= 0 THEN "Price must be greater than zero."
    ELSE IF quantity <= 0 THEN "Quantity must be greater than zero."
    ELSE IF max_time_active # None /\ max_time_active <= 0
         THEN "Max time active must be greater than zero."
    ELSE IF type = "BUY" /\ sl # None /\ sl >= price
         THEN "Stop-loss for a BUY order must be below the entry price."
    ELSE IF type = "BUY" /\ tp # None /\ tp <= price
         THEN "Take-profit for a BUY order must be above the entry price."
    ELSE IF type = "SELL" /\ sl # None /\ sl <= price
         THEN "Stop-loss for a SELL order must be above the entry price."
    ELSE IF type = "SELL" /\ tp # None /\ tp >= price
         THEN "Take-profit for a SELL order must be below the entry price."
    ELSE NoError

\* _validate_position_params
_validate_position_params(type, open_price, quantity, sl, tp) ==
    IF open_price <= 0 THEN "Open price must be greater than zero."
    ELSE IF quantity <= 0 THEN "Quantity must be greater than zero."
    ELSE IF type = "BUY" /\ sl # None /\ sl >= open_price
         THEN "Stop-loss for a BUY position must be below the open price."
    ELSE IF type = "BUY" /\ tp # None /\ tp <= open_price
         THEN "Take-profit for a BUY position must be above the open price."
    ELSE IF type = "SELL" /\ sl # None /\ sl <= open_price
         THEN "Stop-loss for a SELL position must be above the open price."
    ELSE IF type = "SELL" /\ tp # None /\ tp >= open_price
         THEN "Take-profit for a SELL position must be below the open price."
    ELSE NoError

\* ------------------------------------------------------------- persistence
\* _save_to_file with a fault: the record is appended twice
_save_to_file_twice(log, obj, ok) == IF ok THEN Append(Append(log, obj), obj) ELSE log

\* _save_to_file / DataStorage._append_pickle: the record is appended; a
\* failure of the append is caught and logged there, the file is unchanged.
_save_to_file(log, obj, ok) == IF ok THEN Append(log, obj) ELSE log

\* list.remove(x): removes the first occurrence, raises ValueError when absent
ListRemoveError == "list.remove(x): x not in list"

\* ------------------------------------------------- operations of the handler
\* Each operation maps the handler L to the handler after the call; L.raised
\* holds the message of the exception the call raised, if any.

\* first index i >= from of targets whose position is ACTIVE, 0 when none
\* (close_position's loop skips positions that are not ACTIVE)
RECURSIVE FirstActive(_, _, _)
FirstActive(L, targets, from) ==
    IF from > Len(targets) THEN 0
    ELSE IF L.positionObjs[targets[from]].status = "ACTIVE" THEN from
    ELSE FirstActive(L, targets, from + 1)

\* PartialClose with a fault: the closed portion keeps the reason as given
PartialCloseSameReason(L, h, price, quantity, close_time, reason) ==
    LET p == L.positionObjs[h]
        remaining_quantity == p.quantity - quantity
        closed_position ==
            Position_close(
                Position(L.position_counter, p.type, p.open_price,
                         quantity, None, None, p.open_time, h),
                price, close_time, reason)
    IN  [L EXCEPT
            !.positionObjs =
                Append([@ EXCEPT ![h].quantity = remaining_quantity], closed_position),
            !.position_counter = @ + 1,
            !.closed_positions = _save_to_file(@, closed_position, L.sink_ok),
            !.current_balance = @ + closed_position.profit_loss]

\* PartialClose with a fault: the original position keeps its whole quantity
PartialCloseKeepsQuantity(L, h, price, quantity, close_time, reason) ==
    LET p == L.positionObjs[h]
        closed_position ==
            Position_close(
                Position(L.position_counter, p.type, p.open_price,
                         quantity, None, None, p.open_time, h),
                price, close_time, reason \o " - Partial Close")
    IN  [L EXCEPT
            !.positionObjs = Append(@, closed_position),
            !.position_counter = @ + 1,
            !.closed_positions = _save_to_file(@, closed_position, L.sink_ok),
            !.current_balance = @ + closed_position.profit_loss]

\* close_position, lines 469-498: the partial closure of position h
PartialClose(L, h, price, quantity, close_time, reason) ==
    LET p == L.positionObjs[h]
        remaining_quantity == p.quantity - quantity
        closed_position ==
            Position_close(
                Position(L.position_counter, p.type, p.open_price,
                         quantity, None, None, p.open_time, h),
                price, close_time, reason \o " - Partial Close")
    IN  [L EXCEPT
            !.positionObjs =
                Append([@ EXCEPT ![h].quantity = remaining_quantity], closed_position),
            !.position_counter = @ + 1,
            !.closed_positions = _save_to_file(@, closed_position, L.sink_ok),
            !.current_balance = @ + closed_position.profit_loss]

\* FullClose with a fault: the position stays in self.positions
FullCloseKeepsListed(L, h, price, close_time, reason) ==
    LET closed == Position_close(L.positionObjs[h], price, close_time, reason)
    IN  [L EXCEPT
            !.positionObjs[h] = closed,
            !.closed_positions = _save_to_file(@, closed, L.sink_ok),
            !.current_balance = @ + closed.profit_loss]

\* FullClose with a fault: the profit of the closed position is not credited
FullCloseNoCredit(L, h, price, close_time, reason) ==
    LET closed == Position_close(L.positionObjs[h], price, close_time, reason)
        at == IndexOf(L.positions, h, 1)
    IN  IF at = 0
        THEN [L EXCEPT !.positionObjs[h] = closed, !.raised = ListRemoveError]
        ELSE [L EXCEPT
                !.positionObjs[h] = closed,
                !.positions = RemoveAt(@, at),
                !.closed_positions = _save_to_file(@, closed, L.sink_ok)]

\* close_position, lines 500-508: the full closure of position h
FullClose(L, h, price, close_time, reason) ==
    LET closed == Position_close(L.positionObjs[h], price, close_time, reason)
        at == IndexOf(L.positions, h, 1)
    IN  IF at = 0
        THEN [L EXCEPT !.positionObjs[h] = closed, !.raised = ListRemoveError]
        ELSE [L EXCEPT
                !.positionObjs[h] = closed,
                !.positions = RemoveAt(@, at),
                !.closed_positions = _save_to_file(@, closed, L.sink_ok),
                !.current_balance = @ + closed.profit_loss]

CapacityError == "Cannot close more than the available quantity."

\* close_position with a fault: no test of the quantity against the position's
close_position_unchecked(L, price, quantity, close_time, reason, position) ==
    LET target_positions == IF position # 0 THEN <<position>> ELSE L.positions
        i == FirstActive(L, target_positions, 1)
    IN  IF i = 0 THEN L
        ELSE
        LET h == target_positions[i] IN
        IF quantity < L.positionObjs[h].quantity
        THEN PartialClose(L, h, price, quantity, close_time, reason)
        ELSE FullClose(L, h, price, close_time, reason)

\* close_position with a fault: it acts on the first ACTIVE position that can
\* absorb the quantity, not on the first ACTIVE one
close_position_absorbing(L, price, quantity, close_time, reason, position) ==
    LET target_positions == IF position # 0 THEN <<position>> ELSE L.positions
        able == {i \in DOMAIN target_positions :
                    /\ L.positionObjs[target_positions[i]].status = "ACTIVE"
                    /\ L.positionObjs[target_positions[i]].quantity >= quantity}
        i == IF able = {} THEN FirstActive(L, target_positions, 1)
             ELSE CHOOSE a \in able : \A b \in able : a <= b
    IN  IF i = 0 THEN L
        ELSE
        LET h == target_positions[i] IN
        IF quantity > L.positionObjs[h].quantity
        THEN [L EXCEPT !.raised = CapacityError]
        ELSE IF quantity < L.positionObjs[h].quantity
        THEN PartialClose(L, h, price, quantity, close_time, reason)
        ELSE FullClose(L, h, price, close_time, reason)

\* close_position(price, quantity, close_time, reason, position);
\* position = 0 stands for position=None.
close_position(L, price, quantity, close_time, reason, position) ==
    LET target_positions == IF position # 0 THEN <<position>> ELSE L.positions
        i == FirstActive(L, target_positions, 1)
    IN  IF i = 0 THEN L
        ELSE
        LET h == target_positions[i] IN
        IF quantity > L.positionObjs[h].quantity
        THEN [L EXCEPT !.raised = CapacityError]
        ELSE IF quantity < L.positionObjs[h].quantity
        THEN PartialClose(L, h, price, quantity, close_time, reason)
        ELSE FullClose(L, h, price, close_time, reason)

\* cancel_order with a fault: the order's status is not looked at
cancel_order_unchecked(L, order, reason) ==
    LET cancelled == Order_cancel(L.orderObjs[order], reason)
        at == IndexOf(L.pending_orders, order, 1)
    IN  IF at = 0
        THEN [L EXCEPT !.orderObjs[order] = cancelled, !.raised = ListRemoveError]
        ELSE [L EXCEPT
                !.orderObjs[order] = cancelled,
                !.pending_orders = RemoveAt(@, at),
                !.historical_orders = _save_to_file(@, cancelled, L.sink_ok)]

\* cancel_order(order, reason)
\* cancel_order with a fault: the cancelled order stays in self.pending_orders
cancel_order_keeps_listed(L, order, reason) ==
    IF L.orderObjs[order].status # "PENDING" THEN L
    ELSE
    LET cancelled == Order_cancel(L.orderObjs[order], reason)
    IN  [L EXCEPT
            !.orderObjs[order] = cancelled,
            !.historical_orders = _save_to_file(@, cancelled, L.sink_ok)]

cancel_order(L, order, reason) ==
    IF L.orderObjs[order].status # "PENDING" THEN L
    ELSE
    LET cancelled == Order_cancel(L.orderObjs[order], reason)
        at == IndexOf(L.pending_orders, order, 1)
    IN  IF at = 0
        THEN [L EXCEPT !.orderObjs[order] = cancelled, !.raised = ListRemoveError]
        ELSE [L EXCEPT
                !.orderObjs[order] = cancelled,
                !.pending_orders = RemoveAt(@, at),
                !.historical_orders = _save_to_file(@, cancelled, L.sink_ok)]

\* MarkExecuted with a fault: when the append fails the order stays PENDING in
\* pending_orders
MarkExecutedNeedsSink(L, order) ==
    LET executed == [L.orderObjs[order] EXCEPT !.status = "EXECUTED"]
        at == IndexOf(L.pending_orders, order, 1)
        saved == [L EXCEPT
                    !.orderObjs[order] = executed,
                    !.historical_orders = _save_to_file(@, executed, L.sink_ok)]
    IN  IF ~L.sink_ok THEN L
        ELSE IF at = 0 THEN [saved EXCEPT !.raised = ListRemoveError]
        ELSE [saved EXCEPT !.pending_orders = RemoveAt(@, at)]

\* _execute_order, lines 592-594: status, save, removal from pending_orders
MarkExecuted(L, order) ==
    LET executed == [L.orderObjs[order] EXCEPT !.status = "EXECUTED"]
        at == IndexOf(L.pending_orders, order, 1)
        saved == [L EXCEPT
                    !.orderObjs[order] = executed,
                    !.historical_orders = _save_to_file(@, executed, L.sink_ok)]
    IN  IF at = 0 THEN [saved EXCEPT !.raised = ListRemoveError]
        ELSE [saved EXCEPT !.pending_orders = RemoveAt(@, at)]

\* ExecuteOpen with a fault: the order is not linked to the position it opens
ExecuteOpenUnlinked(L, order) ==
    LET o == L.orderObjs[order]
        err == _validate_position_params(o.type, o.price, o.quantity, o.sl, o.tp)
        new_position == Position(L.position_counter, o.type, o.price,
                                 o.quantity, o.sl, o.tp, o.creation_time, 0)
        h == Len(L.positionObjs) + 1
    IN  IF err # NoError THEN [L EXCEPT !.raised = err]
        ELSE [L EXCEPT !.position_counter = @ + 1,
                       !.positionObjs = Append(@, new_position),
                       !.positions = Append(@, h)]

\* _execute_order, lines 540-568: a BUY or SELL order opens a position
ExecuteOpen(L, order) ==
    LET o == L.orderObjs[order]
        err == _validate_position_params(o.type, o.price, o.quantity, o.sl, o.tp)
        new_position == Position(L.position_counter, o.type, o.price,
                                 o.quantity, o.sl, o.tp, o.creation_time, 0)
        h == Len(L.positionObjs) + 1
    IN  IF err # NoError THEN [L EXCEPT !.raised = err]
        ELSE [L EXCEPT !.position_counter = @ + 1,
                       !.positionObjs = Append(@, new_position),
                       !.positions = Append(@, h),
                       !.orderObjs[order].position_reference = h]

\* ExecuteModify with a fault: the position's status is not looked at
ExecuteModifyAnyStatus(L, order) ==
    LET o == L.orderObjs[order]
        h == o.position_reference
        p == L.positionObjs[h]
    IN  [L EXCEPT !.positionObjs[h].sl = IF Truthy(o.sl) THEN o.sl ELSE p.sl,
                  !.positionObjs[h].tp = IF Truthy(o.tp) THEN o.tp ELSE p.tp]

\* _execute_order, lines 570-578: a MODIFY order with a position reference
ExecuteModify(L, order) ==
    LET o == L.orderObjs[order]
        h == o.position_reference
        p == L.positionObjs[h]
    IN  IF p.status = "ACTIVE"
        THEN [L EXCEPT !.positionObjs[h].sl = IF Truthy(o.sl) THEN o.sl ELSE p.sl,
                       !.positionObjs[h].tp = IF Truthy(o.tp) THEN o.tp ELSE p.tp]
        ELSE L

\* _execute_order, lines 580-590: a CLOSE order with a position reference;
\* now is its pd.Timestamp.now()
ExecuteClose(L, order, now) ==
    LET o == L.orderObjs[order]
        h == o.position_reference
    IN  IF L.positionObjs[h].status = "ACTIVE"
        THEN close_position(L, o.price, o.quantity, now, "Closed via linked order", h)
        ELSE L

\* _execute_order, lines 540-594: the execution of a pending order
ExecutePending(L, order, now) ==
    LET o == L.orderObjs[order]
        done == IF o.type = "BUY" \/ o.type = "SELL" THEN ExecuteOpen(L, order)
                ELSE IF o.type = "MODIFY" /\ o.position_reference # 0
                THEN ExecuteModify(L, order)
                ELSE IF o.type = "CLOSE" /\ o.position_reference # 0
                THEN ExecuteClose(L, order, now)
                ELSE L
    IN  IF done.raised # NoError THEN done ELSE MarkExecuted(done, order)

\* _execute_order with a fault: the order's status is not looked at
_execute_order_unchecked(L, order, now) ==
    ExecutePending(L, order, now)

\* _execute_order(order)
_execute_order(L, order, now) ==
    IF L.orderObjs[order].status # "PENDING" THEN L
    ELSE ExecutePending(L, order, now)

\* _should_execute_order
_should_execute_order(o, current_price) ==
    \/ o.type = "BUY" /\ current_price <= o.price
    \/ o.type = "SELL" /\ current_price >= o.price

\* the timeout test of _process_pending_orders
TimedOut(o, current_time) ==
    Truthy(o.max_time_active) /\ current_time - o.creation_time > o.max_time_active

TimeoutReason == "Timeout reached."

\* _process_pending_orders: the loop over the snapshot pending_orders[:],
\* from its i-th element on; an exception ends it.
RECURSIVE ProcessOrdersFrom(_, _, _, _, _)
ProcessOrdersFrom(L, snapshot, i, current_price, current_time) ==
    IF i > Len(snapshot) \/ L.raised # NoError THEN L
    ELSE
    LET order == snapshot[i]
        o == L.orderObjs[order]
        after ==
            IF o.status # "PENDING" THEN L
            ELSE IF TimedOut(o, current_time)
            THEN cancel_order(L, order, TimeoutReason)
            ELSE IF _should_execute_order(o, current_price)
            THEN _execute_order(L, order, current_time)
            ELSE L
    IN  ProcessOrdersFrom(after, snapshot, i + 1, current_price, current_time)

_process_pending_orders(L, current_price, current_time) ==
    ProcessOrdersFrom(L, L.pending_orders, 1, current_price, current_time)

\* _process_stop_loss / _process_take_profit
_process_stop_loss(L, position, current_time) ==
    LET p == L.positionObjs[position] IN
    close_position(L, p.sl, p.quantity, current_time, "Stop Loss triggered", position)

_process_take_profit(L, position, current_time) ==
    LET p == L.positionObjs[position] IN
    close_position(L, p.tp, p.quantity, current_time, "Take Profit triggered", position)

\* ProcessPosition with a fault: a price equal to the stop-loss does not
\* trigger it
ProcessPositionBelowStop(L, position, latest_price, current_time) ==
    IF L.positionObjs[position].status # "ACTIVE" THEN L
    ELSE
    LET p == L.positionObjs[position]
        after_sl == IF Truthy(p.sl) /\ latest_price < p.sl
                    THEN _process_stop_loss(L, position, current_time)
                    ELSE L
    IN  IF after_sl.raised # NoError THEN after_sl
        ELSE IF Truthy(p.tp) /\ latest_price >= p.tp
        THEN _process_take_profit(after_sl, position, current_time)
        ELSE after_sl

\* ProcessPosition with a fault: the take-profit is looked at before the
\* stop-loss
ProcessPositionTakeProfitFirst(L, position, latest_price, current_time) ==
    IF L.positionObjs[position].status # "ACTIVE" THEN L
    ELSE
    LET p == L.positionObjs[position]
        after_tp == IF Truthy(p.tp) /\ latest_price >= p.tp
                    THEN _process_take_profit(L, position, current_time)
                    ELSE L
    IN  IF after_tp.raised # NoError THEN after_tp
        ELSE IF Truthy(p.sl) /\ latest_price <= p.sl
        THEN _process_stop_loss(after_tp, position, current_time)
        ELSE after_tp

\* the body of the loop of _process_active_positions for one position
ProcessPosition(L, position, latest_price, current_time) ==
    IF L.positionObjs[position].status # "ACTIVE" THEN L
    ELSE
    LET p == L.positionObjs[position]
        after_sl == IF Truthy(p.sl) /\ latest_price <= p.sl
                    THEN _process_stop_loss(L, position, current_time)
                    ELSE L
    IN  IF after_sl.raised # NoError THEN after_sl
        ELSE IF Truthy(p.tp) /\ latest_price >= p.tp
        THEN _process_take_profit(after_sl, position, current_time)
        ELSE after_sl

RECURSIVE ProcessPositionsFrom(_, _, _, _, _)
ProcessPositionsFrom(L, snapshot, i, latest_price, current_time) ==
    IF i > Len(snapshot) \/ L.raised # NoError THEN L
    ELSE ProcessPositionsFrom(
            ProcessPosition(L, snapshot[i], latest_price, current_time),
            snapshot, i + 1, latest_price, current_time)

_process_active_positions(L, latest_price, current_time) ==
    ProcessPositionsFrom(L, L.positions, 1, latest_price, current_time)

\* update(latest_data)
update(L, latest_price, current_time) ==
    LET after_orders == _process_pending_orders(L, latest_price, current_time) IN
    IF after_orders.raised # NoError THEN after_orders
    ELSE _process_active_positions(after_orders, latest_price, current_time)

\* create_order with a fault: the order id counter is not advanced
create_order_same_id(L, type, price, quantity, sl, tp, max_time_active, creation_time) ==
    LET err == _validate_order_params(type, price, quantity, sl, tp, max_time_active)
        new_order == Order(L.order_counter, type, price, quantity, sl, tp,
                           max_time_active, creation_time)
    IN  IF err # NoError THEN [L EXCEPT !.raised = err]
        ELSE [L EXCEPT !.orderObjs = Append(@, new_order),
                       !.pending_orders = Append(@, Len(L.orderObjs) + 1)]

\* create_order: L with the new order appended, or with raised set
create_order(L, type, price, quantity, sl, tp, max_time_active, creation_time) ==
    LET err == _validate_order_params(type, price, quantity, sl, tp, max_time_active)
        new_order == Order(L.order_counter, type, price, quantity, sl, tp,
                           max_time_active, creation_time)
    IN  IF err # NoError THEN [L EXCEPT !.raised = err]
        ELSE [L EXCEPT !.order_counter = @ + 1,
                       !.orderObjs = Append(@, new_order),
                       !.pending_orders = Append(@, Len(L.orderObjs) + 1)]

\* kwargs.get(key, default)
Get(kwargs, key, default) == IF kwargs[key] = Absent THEN default ELSE kwargs[key]

\* first index of pending_orders whose order has the id, 0 when none
RECURSIVE FindPending(_, _, _)
FindPending(L, order_id, i) ==
    IF i > Len(L.pending_orders) THEN 0
    ELSE IF L.orderObjs[L.pending_orders[i]].order_id = order_id THEN i
    ELSE FindPending(L, order_id, i + 1)

\* edit_order(order_id, **kwargs)
edit_order(L, order_id, kwargs) ==
    LET i == FindPending(L, order_id, 1) IN
    IF i = 0 THEN L
    ELSE
    LET h == L.pending_orders[i]
        o == L.orderObjs[h]
    IN  IF o.status # "PENDING" THEN L
        ELSE
        LET edited == [o EXCEPT
                        !.price = Get(kwargs, "price", o.price),
                        !.quantity = Get(kwargs, "quantity", o.quantity),
                        !.sl = Get(kwargs, "sl", o.sl),
                        !.tp = Get(kwargs, "tp", o.tp),
                        !.max_time_active =
                            Get(kwargs, "max_time_active", o.max_time_active)]
        IN  [L EXCEPT
                !.orderObjs[h] = edited,
                !.raised = _validate_order_params(edited.type, edited.price,
                               edited.quantity, edited.sl, edited.tp,
                               edited.max_time_active)]

\* modify_position(price, sl, tp): the loop over self.positions
RECURSIVE ModifyFrom(_, _, _, _)
ModifyFrom(L, i, sl, tp) ==
    IF i > Len(L.positions) THEN L
    ELSE
    LET h == L.positions[i]
        p == L.positionObjs[h]
    IN  ModifyFrom(
            IF p.status = "ACTIVE"
            THEN [L EXCEPT !.positionObjs[h].sl = IF Truthy(sl) THEN sl ELSE p.sl,
                           !.positionObjs[h].tp = IF Truthy(tp) THEN tp ELSE p.tp]
            ELSE L,
            i + 1, sl, tp)

\* modify_position with a fault: the price given becomes the open price of the
\* positions
modify_position_moves_price(L, price, sl, tp) ==
    LET M == ModifyFrom(L, 1, sl, tp) IN
    [M EXCEPT !.positionObjs =
        [h \in DOMAIN @ |->
            IF @[h].status = "ACTIVE" /\ Truthy(price)
            THEN [@[h] EXCEPT !.open_price = price] ELSE @[h]]]

modify_position(L, price, sl, tp) == ModifyFrom(L, 1, sl, tp)

\* get_closed_positions: the records of closed_positions.pkl; no record when
\* the file does not exist
get_closed_positions(L) == L.closed_positions

\* closed_positions['profit_loss'].dropna().sum()
RECURSIVE SumProfitLoss(_, _)
SumProfitLoss(closed, i) ==
    IF i > Len(closed) THEN 0
    ELSE (IF closed[i].profit_loss = None THEN 0 ELSE closed[i].profit_loss)
         + SumProfitLoss(closed, i + 1)

\* (closed_positions['profit_loss'] > 0).sum()
RECURSIVE CountProfitable(_, _)
CountProfitable(closed, i) ==
    IF i > Len(closed) THEN 0
    ELSE (IF closed[i].profit_loss # None /\ closed[i].profit_loss > 0 THEN 1 ELSE 0)
         + CountProfitable(closed, i + 1)

\* calculate_statistics with a fault: a closed record with no profit counts
\* as profitable
calculate_statistics_no_loss(L) ==
    LET closed == get_closed_positions(L)
        empty == Len(closed) = 0
        losing == Cardinality({i \in DOMAIN closed :
                        closed[i].profit_loss # None /\ closed[i].profit_loss < 0})
    IN  [initial_balance |-> InitialBalance,
         current_balance |-> L.current_balance,
         total_positions |-> Len(L.positions) + (IF ~empty THEN Len(closed) ELSE 0),
         closed_positions |-> IF ~empty THEN Len(closed) ELSE 0,
         active_positions |-> Len(L.positions),
         total_profit_loss |-> IF ~empty THEN SumProfitLoss(closed, 1) ELSE 0,
         win_rate |-> IF ~empty
                      THEN [num |-> Len(closed) - losing, den |-> Len(closed)]
                      ELSE [num |-> 0, den |-> 1]]

\* calculate_statistics: the dictionary it returns (without max_drawdown);
\* win_rate is the fraction num / den
calculate_statistics(L) ==
    LET closed == get_closed_positions(L)
        empty == Len(closed) = 0
    IN  [initial_balance |-> InitialBalance,
         current_balance |-> L.current_balance,
         total_positions |-> Len(L.positions) + (IF ~empty THEN Len(closed) ELSE 0),
         closed_positions |-> IF ~empty THEN Len(closed) ELSE 0,
         active_positions |-> Len(L.positions),
         total_profit_loss |-> IF ~empty THEN SumProfitLoss(closed, 1) ELSE 0,
         win_rate |-> IF ~empty
                      THEN [num |-> CountProfitable(closed, 1), den |-> Len(closed)]
                      ELSE [num |-> 0, den |-> 1]]

\* reset with a fault: the order id counter is left as it is
reset_keeps_counter(L) ==
    [L EXCEPT !.positions = <<>>,
              !.pending_orders = <<>>,
              !.current_balance = InitialBalance,
              !.position_counter = 1,
              !.historical_orders = IF L.sink_ok THEN <<>> ELSE @,
              !.closed_positions = IF L.sink_ok THEN <<>> ELSE @]

\* reset(); DataStorage.remove_file catches a failing os.remove
reset(L) ==
    [L EXCEPT !.positions = <<>>,
              !.pending_orders = <<>>,
              !.current_balance = InitialBalance,
              !.order_counter = 1,
              !.position_counter = 1,
              !.historical_orders = IF L.sink_ok THEN <<>> ELSE @,
              !.closed_positions = IF L.sink_ok THEN <<>> ELSE @]

\* ----------------------------------------------------- the account handler
\* AccountHandler (account_handler.py).  An operation maps the account A to
\* the account after the call; A.raised holds the class of the exception the
\* call raised, if any.  margin_level is None (defined = FALSE) or the
\* fraction num / den.
NoLevel == [defined |-> FALSE, num |-> 0, den |-> 1]

\* AccountHandler.__init__
AccountHandler ==
    [current_balance |-> InitialBalance, total_margin |-> 0,
     free_margin |-> InitialBalance, margin_level |-> NoLevel,
     realized_pnl |-> 0, unrealized_pnl |-> 0, equity |-> InitialBalance,
     current_exposure |-> 0, max_drawdown |-> 0, position_handler |-> FALSE,
     raised |-> NoError]

\* Python truthiness of margin_level: None and 0.0 are falsy
TruthyLevel(level) == level.defined /\ level.num # 0

\* margin_level < percent
LevelBelow(level, percent) == level.num < percent * level.den

update_equity(A) ==
    [A EXCEPT !.equity = A.current_balance + A.unrealized_pnl]

\* (equity / total_margin) * 100 when total_margin > 0, else None
calculate_margin_level(A) ==
    [A EXCEPT !.margin_level =
        IF A.total_margin > 0
        THEN [defined |-> TRUE, num |-> A.equity * 100, den |-> A.total_margin]
        ELSE NoLevel]

update_margin_on_position_change(A, margin_change) ==
    LET total_margin == A.total_margin + margin_change IN
    calculate_margin_level(
        [A EXCEPT !.total_margin = total_margin,
                  !.free_margin = A.equity - total_margin])

\* update_realized_pnl with a fault: the equity is not recomputed
update_realized_pnl_stale_equity(A, profit_or_loss) ==
    [A EXCEPT !.realized_pnl = @ + profit_or_loss,
              !.current_balance = @ + profit_or_loss]

update_realized_pnl(A, profit_or_loss) ==
    update_equity([A EXCEPT !.realized_pnl = @ + profit_or_loss,
                            !.current_balance = @ + profit_or_loss])

NoHandlerError == "ValueError: PositionHandler has not been set for this account."

_validate_position_handler_set(A) ==
    IF ~A.position_handler THEN [A EXCEPT !.raised = NoHandlerError] ELSE A

\* calculate_unrealized_pnl: the class body defines it twice and the second
\* definition (lines 208-255) is the method of the class.  Its first
\* statement reads symbol, which is neither a parameter nor a global:
\* NameError, whatever current_prices holds.
calculate_unrealized_pnl(A, current_prices) ==
    [A EXCEPT !.raised = "NameError: name 'symbol' is not defined"]

\* calculate_max_drawdown with a fault: the last drawdown replaces the maximum
calculate_max_drawdown_last(A, max_equity) ==
    [A EXCEPT !.max_drawdown = max_equity - A.equity]

calculate_max_drawdown(A, max_equity) ==
    LET drawdown == max_equity - A.equity IN
    IF drawdown > A.max_drawdown THEN [A EXCEPT !.max_drawdown = drawdown] ELSE A

check_margin_call(A) ==
    TruthyLevel(A.margin_level) /\ LevelBelow(A.margin_level, 100)

trigger_stop_out(A) ==
    TruthyLevel(A.margin_level) /\ LevelBelow(A.margin_level, 50)

\* AccountHandler.update(current_prices): what follows the recomputation of
\* the unrealized PnL starts with calculate_exposure() called without its
\* argument (TypeError)
AccountHandler_update(A, current_prices) ==
    LET checked == _validate_position_handler_set(A) IN
    IF checked.raised # NoError THEN checked
    ELSE
    LET marked == calculate_unrealized_pnl(checked, current_prices) IN
    IF marked.raised # NoError THEN marked
    ELSE [marked EXCEPT !.raised = "TypeError: calculate_exposure() missing 1 required positional argument: 'active_positions'"]

_reset_account(A) ==
    [A EXCEPT !.current_balance = InitialBalance,
              !.total_margin = 0,
              !.free_margin = InitialBalance,
              !.margin_level = NoLevel,
              !.realized_pnl = 0,
              !.unrealized_pnl = 0,
              !.equity = InitialBalance,
              !.current_exposure = 0,
              !.max_drawdown = 0]

\* _reset_positions: the handler L of the account after it
_reset_positions(L) ==
    [L EXCEPT !.positions = <<>>,
              !.pending_orders = <<>>,
              !.order_counter = 1,
              !.position_counter = 1,
              !.historical_orders = IF L.sink_ok THEN <<>> ELSE @,
              !.closed_positions = IF L.sink_ok THEN <<>> ELSE @]

\* ------------------------------------------------------------------ inputs
\* Prices are 1..3: an order is placed at 2 (or at the malformed 0) with its
\* stop-loss and take-profit at 1 or 3; ticks and closes come at 1, 2 or 3.
\* An order is created at time 0 and lives for one second when it times out;
\* ticks come at times 1 and 2.
TickPrices      == {1, 2, 3}
TickTimes       == {1, 2}
CreationTimes   == {0}
CloseTimes      == {2}
ClosePrices     == {3}
CloseQuantities == 0 .. MaxQty + 1
ManualReasons   == {"Manual close"}
CancelReasons   == {"User cancel"}

OrderPrices     == {0, 2}
OrderQuantities == {0, MaxQty}
OrderStops      == {<<None, None>>, <<1, 3>>, <<3, 1>>, <<1, 1>>, <<3, 3>>,
                    <<2, 3>>, <<1, 2>>, <<2, 1>>, <<3, 2>>}
Durations       == {None, 0, 1}

\* the number of malformed arguments of a create_order call
Malformed(a) ==
    (IF a.price <= 0 THEN 1 ELSE 0) + (IF a.quantity <= 0 THEN 1 ELSE 0)
    + (IF a.max_time_active = 0 THEN 1 ELSE 0)
    + (IF a.sl # None /\ <<a.sl, a.tp>> # (IF a.type = "BUY" THEN <<1, 3>> ELSE <<3, 1>>)
       THEN 1 ELSE 0)

\* A BUY or SELL order either times out or carries a stop-loss and a
\* take-profit, and at most one of its arguments is malformed; a MODIFY order
\* carries the stops (3, 1); a CLOSE order closes 1..MaxQty at price 3.
CreateArgs ==
    {a \in {[type |-> t, price |-> p, quantity |-> q, sl |-> st[1], tp |-> st[2],
             max_time_active |-> d] :
                t \in {"BUY", "SELL"}, p \in OrderPrices, q \in OrderQuantities,
                st \in OrderStops, d \in Durations} :
        /\ (a.max_time_active = None) # (a.sl = None)
        /\ Malformed(a) <= 1}
    \cup [type : {"MODIFY"}, price : {1}, quantity : {MaxQty},
          sl : {3}, tp : {1}, max_time_active : {None}]
    \cup [type : {"CLOSE"}, price : ClosePrices, quantity : 1 .. MaxQty,
          sl : {None}, tp : {None}, max_time_active : {None}]

NoKwargs == [price |-> Absent, quantity |-> Absent, sl |-> Absent, tp |-> Absent,
             max_time_active |-> Absent]

\* the keywords edit_order is called with: a new quantity; or a new stop-loss
\* that is on the wrong side of the price 2 of a BUY or SELL order, with a
\* lifetime of 0
EditKwargs ==
    {[NoKwargs EXCEPT !.quantity = MaxQty],
     [NoKwargs EXCEPT !.sl = 2, !.max_time_active = 0]}

\* modify_position is called with the stops (3, 1)
ModifyArgs == {[price |-> None, sl |-> 3, tp |-> 1]}

\* ----------------------------------------------------------------- actions
\* the positions an order opened: the Position objects a caller can hold (the
\* slice of a partial close is local to close_position)
Opened == {h \in DOMAIN positionObjs : positionObjs[h].cut_from = 0}

\* what the last call raised
NoException == [op |-> "", error |-> ""]
Raised(op, L) ==
    IF L.raised = NoError THEN NoException ELSE [op |-> op, error |-> "ValueError"]

\* the handler becomes L
Becomes(L) ==
    /\ Len(L.orderObjs) <= MaxOrders
    /\ Len(L.positionObjs) <= MaxPositions
    /\ orderObjs' = L.orderObjs
    /\ positionObjs' = L.positionObjs
    /\ pending_orders' = L.pending_orders
    /\ positions' = L.positions
    /\ current_balance' = L.current_balance
    /\ order_counter' = L.order_counter
    /\ position_counter' = L.position_counter
    /\ historical_orders' = L.historical_orders
    /\ closed_positions' = L.closed_positions
    /\ last_order_id' = IF Len(L.orderObjs) > Len(orderObjs)
                        THEN L.orderObjs[Len(L.orderObjs)].order_id
                        ELSE last_order_id
    /\ other' = other
    /\ account' = account

Init ==
    /\ orderObjs = <<>>
    /\ positionObjs = <<>>
    /\ pending_orders = <<>>
    /\ positions = <<>>
    /\ current_balance = InitialBalance
    /\ order_counter = 1
    /\ position_counter = 1
    /\ historical_orders = <<>>
    /\ closed_positions = <<>>
    /\ raised = NoException
    /\ last_order_id = 0
    /\ other = [orderObjs |-> <<>>, positionObjs |-> <<>>, pending_orders |-> <<>>,
                positions |-> <<>>, current_balance |-> InitialBalance,
                order_counter |-> 1, position_counter |-> 1]
    /\ account = AccountHandler

CreateOrderCall(ok, a, creation_time) ==
    LET L == create_order(Ledger(ok), a.type, a.price, a.quantity, a.sl, a.tp,
                          a.max_time_active, creation_time)
    IN  Becomes(L) /\ raised' = Raised("create_order", L)

CreateOrder(ok) ==
    \E a \in CreateArgs, creation_time \in CreationTimes :
        CreateOrderCall(ok, a, creation_time)

EditOrderCall(ok, order_id, kwargs) ==
    LET L == edit_order(Ledger(ok), order_id, kwargs)
    IN  Becomes(L) /\ raised' = Raised("edit_order", L)

EditOrder(ok) ==
    \E order_id \in 1 .. MaxOrders, kwargs \in EditKwargs :
        EditOrderCall(ok, order_id, kwargs)

\* the caller links a pending MODIFY or CLOSE order to a position that an
\* order opened (order.position_reference = position)
LinkOrder ==
    \E h \in DOMAIN orderObjs, p \in Opened :
        /\ orderObjs[h].status = "PENDING"
        /\ orderObjs[h].type \in {"MODIFY", "CLOSE"}
        /\ orderObjs[h].position_reference = 0
        /\ orderObjs' = [orderObjs EXCEPT ![h].position_reference = p]
        /\ raised' = NoException
        /\ UNCHANGED <<positionObjs, pending_orders, positions, current_balance,
                       order_counter, position_counter, historical_orders,
                       closed_positions, last_order_id, other, account>>

ModifyPositionCall(ok, price, sl, tp) ==
    LET L == modify_position(Ledger(ok), price, sl, tp)
    IN  Becomes(L) /\ raised' = Raised("modify_position", L)

ModifyPosition(ok) ==
    \E a \in ModifyArgs : ModifyPositionCall(ok, a.price, a.sl, a.tp)

ClosePositionCall(ok, price, quantity, close_time, reason, position) ==
    LET L == close_position(Ledger(ok), price, quantity, close_time, reason, position)
    IN  Becomes(L) /\ raised' = Raised("close_position", L)

ClosePosition(ok) ==
    \E price \in ClosePrices, quantity \in CloseQuantities, close_time \in CloseTimes,
       reason \in ManualReasons, position \in {0} \cup Opened :
        ClosePositionCall(ok, price, quantity, close_time, reason, position)

CancelOrderCall(ok, order, reason) ==
    LET L == cancel_order(Ledger(ok), order, reason)
    IN  Becomes(L) /\ raised' = Raised("cancel_order", L)

CancelOrder(ok) ==
    \E order \in DOMAIN orderObjs, reason \in CancelReasons :
        CancelOrderCall(ok, order, reason)

ExecuteOrderCall(ok, order, now) ==
    LET L == _execute_order(Ledger(ok), order, now)
    IN  Becomes(L) /\ raised' = Raised("_execute_order", L)

ExecuteOrder(ok) ==
    \E order \in DOMAIN orderObjs, now \in CloseTimes :
        ExecuteOrderCall(ok, order, now)

ProcessPendingOrdersCall(ok, current_price, current_time) ==
    LET L == _process_pending_orders(Ledger(ok), current_price, current_time)
    IN  Becomes(L) /\ raised' = Raised("_process_pending_orders", L)

ProcessPendingOrders(ok) ==
    \E current_price \in TickPrices, current_time \in TickTimes :
        ProcessPendingOrdersCall(ok, current_price, current_time)

ProcessActivePositionsCall(ok, latest_price, current_time) ==
    LET L == _process_active_positions(Ledger(ok), latest_price, current_time)
    IN  Becomes(L) /\ raised' = Raised("_process_active_positions", L)

ProcessActivePositions(ok) ==
    \E latest_price \in TickPrices, current_time \in TickTimes :
        ProcessActivePositionsCall(ok, latest_price, current_time)

UpdateCall(ok, latest_price, current_time) ==
    LET L == update(Ledger(ok), latest_price, current_time)
    IN  Becomes(L) /\ raised' = Raised("update", L)

Update(ok) ==
    \E latest_price \in TickPrices, current_time \in TickTimes :
        UpdateCall(ok, latest_price, current_time)

\* calculate_statistics() reads the handler and the closed-position log and
\* assigns nothing; its result goes to the caller
CalculateStatistics(ok) ==
    /\ calculate_statistics(Ledger(ok)).active_positions = Len(positions)
    /\ raised' = NoException
    /\ UNCHANGED <<ledgerVars, last_order_id, other, account>>

\* reset(); the caller drops the objects of the handler with it
Reset(ok) ==
    LET L == reset(Ledger(ok))
    IN  /\ Becomes([L EXCEPT !.orderObjs = <<>>, !.positionObjs = <<>>])
        /\ raised' = NoException

Next ==
    \/ CreateOrder(TRUE)
    \/ EditOrder(TRUE)
    \/ LinkOrder
    \/ ModifyPosition(TRUE)
    \/ ClosePosition(TRUE)
    \/ CancelOrder(TRUE)
    \/ ExecuteOrder(TRUE)
    \/ ProcessPendingOrders(TRUE)
    \/ ProcessActivePositions(TRUE)
    \/ Update(TRUE)
    \/ CalculateStatistics(TRUE)
    \/ Reset(TRUE)

Spec == Init /\ [][Next]_vars

\* ------------------------------------------------------------ two handlers
\* HISTORICAL_ORDERS_FILE and CLOSED_POSITIONS_FILE are class attributes with
\* relative paths: every OperationHandler of a process appends to, reads and
\* removes the same two files.  The second handler is the same code run on
\* its own objects and on those files.
OtherLedger ==
    [orderObjs |-> other.orderObjs, positionObjs |-> other.positionObjs,
     pending_orders |-> other.pending_orders, positions |-> other.positions,
     current_balance |-> other.current_balance,
     order_counter |-> other.order_counter,
     position_counter |-> other.position_counter,
     historical_orders |-> historical_orders, closed_positions |-> closed_positions,
     raised |-> NoError, sink_ok |-> TRUE]

\* the second handler becomes R
OtherBecomes(R) ==
    /\ Len(R.orderObjs) <= MaxOther
    /\ Len(R.positionObjs) <= MaxOther
    /\ other' = [orderObjs |-> R.orderObjs, positionObjs |-> R.positionObjs,
                 pending_orders |-> R.pending_orders, positions |-> R.positions,
                 current_balance |-> R.current_balance,
                 order_counter |-> R.order_counter,
                 position_counter |-> R.position_counter]
    /\ historical_orders' = R.historical_orders
    /\ closed_positions' = R.closed_positions
    /\ UNCHANGED <<orderObjs, positionObjs, pending_orders, positions,
                   current_balance, order_counter, position_counter, last_order_id,
                   account>>

\* the order either handler is given: a BUY at 2 with stops 1 and 3
TwoCreateArgs ==
    {[type |-> "BUY", price |-> 2, quantity |-> MaxQty, sl |-> 1, tp |-> 3,
      max_time_active |-> None]}

OtherCreateOrder ==
    \E a \in TwoCreateArgs, creation_time \in CreationTimes :
        LET R == create_order(OtherLedger, a.type, a.price, a.quantity, a.sl, a.tp,
                              a.max_time_active, creation_time)
        IN  OtherBecomes(R) /\ raised' = Raised("create_order", R)

OtherExecuteOrder ==
    \E order \in DOMAIN other.orderObjs, now \in CloseTimes :
        LET R == _execute_order(OtherLedger, order, now)
        IN  OtherBecomes(R) /\ raised' = Raised("_execute_order", R)

OtherClosePosition ==
    \E price \in ClosePrices, close_time \in CloseTimes, reason \in ManualReasons :
        LET R == close_position(OtherLedger, price, MaxQty, close_time, reason, 0)
        IN  OtherBecomes(R) /\ raised' = Raised("close_position", R)

OtherCancelOrder ==
    \E order \in DOMAIN other.orderObjs, reason \in CancelReasons :
        LET R == cancel_order(OtherLedger, order, reason)
        IN  OtherBecomes(R) /\ raised' = Raised("cancel_order", R)

OtherReset ==
    LET R == reset(OtherLedger)
    IN  /\ OtherBecomes([R EXCEPT !.orderObjs = <<>>, !.positionObjs = <<>>])
        /\ raised' = NoException

\* create_order on the first handler
FirstCreateOrder ==
    \E a \in TwoCreateArgs, creation_time \in CreationTimes :
        CreateOrderCall(TRUE, a, creation_time)

\* a call on the second handler
OtherStep ==
    \/ OtherCreateOrder
    \/ OtherExecuteOrder
    \/ OtherClosePosition
    \/ OtherCancelOrder
    \/ OtherReset

NextTwo ==
    \/ FirstCreateOrder
    \/ ExecuteOrder(TRUE)
    \/ ClosePosition(TRUE)
    \/ CancelOrder(TRUE)
    \/ CalculateStatistics(TRUE)
    \/ Reset(TRUE)
    \/ OtherStep

SpecTwo == Init /\ [][NextTwo]_vars

\* ------------------------------------------------------------------ claims
\* ------------------------------------------------------- a failing sink
\* The appends to the two files may fail (DataStorage._append_pickle catches
\* the exception and logs it): cancel, execution, close and tick run with a
\* sink that works or with one that does not.
NextSink ==
    \/ CreateOrder(TRUE)
    \/ LinkOrder
    \/ \E ok \in BOOLEAN : CancelOrder(ok)
    \/ \E ok \in BOOLEAN : ExecuteOrder(ok)
    \/ \E ok \in BOOLEAN : ClosePosition(ok)
    \/ \E ok \in BOOLEAN : Update(ok)
    \/ Reset(TRUE)

SpecSink == Init /\ [][NextSink]_vars

\* --------------------------------------------------- positions of two sizes
\* Orders of quantity 1 .. MaxQty without stops, so that the ACTIVE positions
\* of self.positions hold different quantities when close_position is called.
SizedCreateArgs ==
    [type : {"BUY", "SELL"}, price : {2}, quantity : 1 .. MaxQty,
     sl : {None}, tp : {None}, max_time_active : {None}]

SizedCreateOrder ==
    \E a \in SizedCreateArgs, creation_time \in CreationTimes :
        CreateOrderCall(TRUE, a, creation_time)

NextSized ==
    \/ SizedCreateOrder
    \/ ExecuteOrder(TRUE)
    \/ ClosePosition(TRUE)
    \/ CancelOrder(TRUE)
    \/ Reset(TRUE)

SpecSized == Init /\ [][NextSized]_vars

\* ------------------------------------------------------- ticks keep arriving
\* The times of the ticks grow without bound, so ticks later than every
\* deadline keep arriving: with orders created at time 0 that live for at most
\* one second, these are the ticks at the last of TickTimes.  Their prices are
\* free.
LastTickTime == CHOOSE t \in TickTimes : \A u \in TickTimes : u <= t

\* update at the last time; T is the handler after the call
LateTick ==
    \E latest_price \in TickPrices :
        \E T \in {update(Ledger(TRUE), latest_price, LastTickTime)} :
            Becomes(T) /\ raised' = Raised("update", T)

\* BUY orders at price 2, with or without a lifetime of one second
LiveCreateArgs ==
    [type : {"BUY"}, price : {2}, quantity : {MaxQty}, sl : {None}, tp : {None},
     max_time_active : {None, 1}]

LiveCreateOrder ==
    \E a \in LiveCreateArgs, creation_time \in CreationTimes :
        CreateOrderCall(TRUE, a, creation_time)

NextLive ==
    \/ LiveCreateOrder
    \/ EditOrder(TRUE)
    \/ CancelOrder(TRUE)
    \/ Update(TRUE)
    \/ Reset(TRUE)

SpecLive == Init /\ [][NextLive]_vars /\ WF_vars(LateTick)

\* ------------------------------------------------------------ the account
\* The account with the handler: orders are created and executed, and the
\* caller drives the account.
Realizations  == {-10, 5}       \* profit_or_loss given to update_realized_pnl
MarginChanges == {-5, 5}        \* margin_change
MaxEquities   == {10, 20}       \* max_equity given to calculate_max_drawdown

\* current_prices for the symbol of the positions: no entry, a bid and an
\* ask, a close, or a bid alone
Quotes ==
    {[bid |-> Absent, ask |-> Absent, close |-> Absent],
     [bid |-> 3, ask |-> 3, close |-> Absent],
     [bid |-> Absent, ask |-> Absent, close |-> 3],
     [bid |-> 3, ask |-> Absent, close |-> Absent]}

Account == [account EXCEPT !.raised = NoError]

AccountRaised(op, A) ==
    IF A.raised = NoError THEN NoException ELSE [op |-> op, error |-> A.raised]

\* the account becomes A; the handler is left alone
AccountBecomes(A) ==
    /\ A.realized_pnl \in -MaxPnL .. MaxPnL
    /\ A.total_margin \in -MaxMargin .. MaxMargin
    /\ account' = [A EXCEPT !.raised = NoError]
    /\ UNCHANGED <<ledgerVars, last_order_id, other>>

\* the caller gives the handler to the account (account.position_handler = ...)
SetPositionHandler ==
    /\ ~account.position_handler
    /\ AccountBecomes([Account EXCEPT !.position_handler = TRUE])
    /\ raised' = NoException

UpdateRealizedPnlCall(profit_or_loss) ==
    /\ AccountBecomes(update_realized_pnl(Account, profit_or_loss))
    /\ raised' = NoException

UpdateRealizedPnl == \E profit_or_loss \in Realizations : UpdateRealizedPnlCall(profit_or_loss)

UpdateMarginCall(margin_change) ==
    /\ AccountBecomes(update_margin_on_position_change(Account, margin_change))
    /\ raised' = NoException

UpdateMargin == \E margin_change \in MarginChanges : UpdateMarginCall(margin_change)

CalculateUnrealizedPnlCall(current_prices) ==
    LET A == calculate_unrealized_pnl(Account, current_prices)
    IN  AccountBecomes(A) /\ raised' = AccountRaised("calculate_unrealized_pnl", A)

CalculateUnrealizedPnl == \E current_prices \in Quotes : CalculateUnrealizedPnlCall(current_prices)

AccountUpdateCall(current_prices) ==
    LET A == AccountHandler_update(Account, current_prices)
    IN  AccountBecomes(A) /\ raised' = AccountRaised("AccountHandler.update", A)

AccountUpdate == \E current_prices \in Quotes : AccountUpdateCall(current_prices)

CalculateMaxDrawdownCall(max_equity) ==
    /\ AccountBecomes(calculate_max_drawdown(Account, max_equity))
    /\ raised' = NoException

CalculateMaxDrawdown == \E max_equity \in MaxEquities : CalculateMaxDrawdownCall(max_equity)

\* check_margin_call() and trigger_stop_out() read the account and assign
\* nothing; their results go to the caller
RiskFlags ==
    /\ check_margin_call(Account) \in BOOLEAN
    /\ trigger_stop_out(Account) \in BOOLEAN
    /\ raised' = NoException
    /\ UNCHANGED <<ledgerVars, last_order_id, other, account>>

\* AccountHandler.reset(): _reset_account, then _reset_positions, which raises
\* when the account has no handler; the caller drops the objects of the handler
AccountReset ==
    LET A == _validate_position_handler_set(_reset_account(Account))
        L == _reset_positions(Ledger(TRUE))
    IN  /\ account' = [A EXCEPT !.raised = NoError]
        /\ raised' = AccountRaised("AccountHandler.reset", A)
        /\ IF A.raised # NoError
           THEN UNCHANGED <<ledgerVars, last_order_id, other>>
           ELSE /\ orderObjs' = <<>>
                /\ positionObjs' = <<>>
                /\ pending_orders' = L.pending_orders
                /\ positions' = L.positions
                /\ order_counter' = L.order_counter
                /\ position_counter' = L.position_counter
                /\ historical_orders' = L.historical_orders
                /\ closed_positions' = L.closed_positions
                /\ UNCHANGED <<current_balance, last_order_id, other>>

NextAccount ==
    \/ FirstCreateOrder
    \/ ExecuteOrder(TRUE)
    \/ SetPositionHandler
    \/ UpdateRealizedPnl
    \/ UpdateMargin
    \/ CalculateUnrealizedPnl
    \/ AccountUpdate
    \/ CalculateMaxDrawdown
    \/ RiskFlags
    \/ AccountReset

SpecAccount == Init /\ [][NextAccount]_vars

ValueError(op) == [op |-> op, error |-> "ValueError"]

Quantity == [h \in DOMAIN positionObjs |-> positionObjs[h].quantity]

\* the closed records cut from position h by partial closes
Slices(h) == {s \in DOMAIN positionObjs : positionObjs[s].cut_from = h}

\* the position a close_position call with this position argument acts on
\* (0: none): the position given, or the first ACTIVE one of self.positions
CloseTarget(position) ==
    IF position # 0 THEN position
    ELSE IF \E i \in DOMAIN positions : positionObjs[positions[i]].status = "ACTIVE"
    THEN positions[CHOOSE i \in DOMAIN positions :
                    /\ positionObjs[positions[i]].status = "ACTIVE"
                    /\ \A j \in 1 .. i - 1 : positionObjs[positions[j]].status # "ACTIVE"]
    ELSE 0

\* C1: quantity conservation.  For every position an order opened with
\* quantity Q, the quantities of the closed records cut from it plus its own
\* quantity (what remains of it, or what its full close closed) are Q, and
\* every record cut from it is CLOSED.
C1_QuantityConserved ==
    \A o \in DOMAIN orderObjs :
        (orderObjs[o].status = "EXECUTED" /\ orderObjs[o].type \in {"BUY", "SELL"}) =>
            LET h == orderObjs[o].position_reference IN
            /\ h \in DOMAIN positionObjs
            /\ Quantity[h] + SumQty(Quantity, Slices(h)) = orderObjs[o].quantity
            /\ \A s \in Slices(h) : positionObjs[s].status = "CLOSED"

\* a position that was closed partially and then fully
C1_Witness ==
    \E h \in DOMAIN positionObjs :
        /\ positionObjs[h].cut_from = 0
        /\ positionObjs[h].status = "CLOSED"
        /\ \E s \in Slices(h) : Quantity[s] > 0 /\ Quantity[h] > 0

\* C2: a close_position call (direct, or made by a CLOSE order that is
\* executed) asking for more than the quantity of the ACTIVE position it acts
\* on raises and changes nothing of the handler.
C2_ExcessCloseRejected ==
    [][/\ \A price \in ClosePrices, quantity \in CloseQuantities,
             close_time \in CloseTimes, reason \in ManualReasons,
             position \in {0} \cup Opened :
            LET target == CloseTarget(position) IN
            ( /\ target # 0
              /\ positionObjs[target].status = "ACTIVE"
              /\ quantity > positionObjs[target].quantity
              /\ ClosePositionCall(TRUE, price, quantity, close_time, reason, position) )
            => (raised' = ValueError("close_position") /\ UNCHANGED ledgerVars)
       /\ \A order \in DOMAIN orderObjs, now \in CloseTimes :
            LET o == orderObjs[order] IN
            ( /\ o.status = "PENDING" /\ o.type = "CLOSE" /\ o.position_reference # 0
              /\ positionObjs[o.position_reference].status = "ACTIVE"
              /\ o.quantity > positionObjs[o.position_reference].quantity
              /\ ExecuteOrderCall(TRUE, order, now) )
            => (raised' = ValueError("_execute_order") /\ UNCHANGED ledgerVars)
      ]_vars

\* close_position has raised while a position is ACTIVE
C2_Witness ==
    /\ raised = ValueError("close_position")
    /\ \E h \in Opened : positionObjs[h].status = "ACTIVE"

Terminal == {"EXECUTED", "CANCELLED"}

\* C3: order state machine.  In every step an order that is EXECUTED or
\* CANCELLED keeps its status and every other field, and an order that is
\* PENDING stays PENDING or becomes EXECUTED or CANCELLED.
C3_OrderStateMachine ==
    [][\A o \in DOMAIN orderObjs \cap DOMAIN orderObjs' :
          /\ orderObjs[o].status \in Terminal => orderObjs'[o] = orderObjs[o]
          /\ orderObjs[o].status = "PENDING" =>
                orderObjs'[o].status \in {"PENDING"} \cup Terminal
      ]_vars

\* one order is CANCELLED and the other EXECUTED, and later calls have acted:
\* the position the executed order opened is CLOSED by now
C3_Witness ==
    /\ \E o \in DOMAIN orderObjs : orderObjs[o].status = "CANCELLED"
    /\ \E o \in DOMAIN orderObjs :
          /\ orderObjs[o].status = "EXECUTED"
          /\ orderObjs[o].type \in {"BUY", "SELL"}
          /\ positionObjs[orderObjs[o].position_reference].status = "CLOSED"

\* C4: position state machine.  In every step a position that is CLOSED keeps
\* its status and every other field, and a position that is ACTIVE stays
\* ACTIVE or becomes CLOSED.
C4_PositionStateMachine ==
    [][\A p \in DOMAIN positionObjs \cap DOMAIN positionObjs' :
          /\ positionObjs[p].status = "CLOSED" => positionObjs'[p] = positionObjs[p]
          /\ positionObjs[p].status = "ACTIVE" =>
                positionObjs'[p].status \in {"ACTIVE", "CLOSED"}
      ]_vars

\* a MODIFY order linked to a CLOSED position has been executed
C4_Witness ==
    \E o \in DOMAIN orderObjs :
        /\ orderObjs[o].type = "MODIFY"
        /\ orderObjs[o].status = "EXECUTED"
        /\ orderObjs[o].position_reference # 0
        /\ positionObjs[orderObjs[o].position_reference].status = "CLOSED"
        /\ positionObjs[orderObjs[o].position_reference].sl # orderObjs[o].sl

\* the create rules as the specification words them: a is a record of
\* create_order's arguments, or an order
Rejectable(a) ==
    \/ a.price <= 0
    \/ a.quantity <= 0
    \/ a.max_time_active # None /\ a.max_time_active <= 0
    \/ a.type = "BUY" /\ a.sl # None /\ a.sl >= a.price
    \/ a.type = "BUY" /\ a.tp # None /\ a.tp <= a.price
    \/ a.type = "SELL" /\ a.sl # None /\ a.sl <= a.price
    \/ a.type = "SELL" /\ a.tp # None /\ a.tp >= a.price

\* C5: in every reachable state, a create_order call whose price or quantity
\* is not positive, whose max_time_active is given and not positive, or whose
\* stop-loss or take-profit is on the wrong side of (or at) the price for BUY
\* or SELL, raises and leaves the pending orders, the orders and the order id
\* counter as they are.
C5_CreateRejects ==
    \A a \in CreateArgs, creation_time \in CreationTimes :
        Rejectable(a) =>
            LET L == create_order(Ledger(TRUE), a.type, a.price, a.quantity, a.sl,
                                  a.tp, a.max_time_active, creation_time)
            IN  /\ L.raised # NoError
                /\ L.pending_orders = pending_orders
                /\ L.order_counter = order_counter
                /\ L.orderObjs = orderObjs

\* create_order has raised while an order is pending
C5_Witness ==
    /\ raised = ValueError("create_order")
    /\ pending_orders # <<>>

\* the pending order with this id that edit_order finds, 0 when none
PendingWithId(order_id) ==
    IF \E i \in DOMAIN pending_orders :
            orderObjs[pending_orders[i]].order_id = order_id
    THEN pending_orders[CHOOSE i \in DOMAIN pending_orders :
            /\ orderObjs[pending_orders[i]].order_id = order_id
            /\ \A j \in 1 .. i - 1 : orderObjs[pending_orders[j]].order_id # order_id]
    ELSE 0

\* an order's fields overridden by the keywords of an edit_order call
Merged(o, kwargs) ==
    [o EXCEPT !.price = IF kwargs.price = Absent THEN @ ELSE kwargs.price,
              !.quantity = IF kwargs.quantity = Absent THEN @ ELSE kwargs.quantity,
              !.sl = IF kwargs.sl = Absent THEN @ ELSE kwargs.sl,
              !.tp = IF kwargs.tp = Absent THEN @ ELSE kwargs.tp,
              !.max_time_active = IF kwargs.max_time_active = Absent THEN @
                                  ELSE kwargs.max_time_active]

\* C6: an edit_order call on a PENDING order whose fields, overridden by the
\* call's keywords, break the create rules raises and leaves every field of
\* every order as it was.
C6_FailedEditChangesNothing ==
    [][\A order_id \in 1 .. MaxOrders, kwargs \in EditKwargs :
          LET h == PendingWithId(order_id) IN
          ( /\ h # 0
            /\ orderObjs[h].status = "PENDING"
            /\ Rejectable(Merged(orderObjs[h], kwargs))
            /\ EditOrderCall(TRUE, order_id, kwargs) )
          => (raised' = ValueError("edit_order") /\ UNCHANGED orderObjs)
      ]_vars

\* C7: every PENDING order has a positive price and a positive quantity, and
\* its stop-loss and take-profit, when set, are on the right sides of its
\* price: sl < price < tp for BUY, tp < price < sl for SELL.
C7_PendingOrdersValid ==
    \A h \in DOMAIN orderObjs :
        LET o == orderObjs[h] IN
        o.status = "PENDING" =>
            /\ o.price > 0
            /\ o.quantity > 0
            /\ (o.type = "BUY" /\ o.sl # None) => o.sl < o.price
            /\ (o.type = "BUY" /\ o.tp # None) => o.price < o.tp
            /\ (o.type = "SELL" /\ o.sl # None) => o.price < o.sl
            /\ (o.type = "SELL" /\ o.tp # None) => o.tp < o.price

\* a tick: update(latest_data), or its first half called alone
Tick(price, time) ==
    \/ UpdateCall(TRUE, price, time)
    \/ ProcessPendingOrdersCall(TRUE, price, time)

\* the order's lifetime is set and the time is more than it after its creation
Expired(o, time) ==
    o.max_time_active # None /\ time - o.creation_time > o.max_time_active

\* C8: a tick at a time more than max_time_active after a PENDING order's
\* creation leaves the order CANCELLED with the timeout reason (with or
\* without a final period), whatever the tick's price, and opens no position
\* for it: its position reference is as before.
C8_TimeoutPrecedesExecution ==
    [][\A price \in TickPrices, time \in TickTimes, h \in DOMAIN orderObjs :
          LET o == orderObjs[h] IN
          ( /\ o.status = "PENDING"
            /\ InSeq(pending_orders, h)
            /\ Expired(o, time)
            /\ Tick(price, time) )
          => /\ orderObjs'[h].status = "CANCELLED"
             /\ orderObjs'[h].reason \in {"Timeout reached", "Timeout reached."}
             /\ orderObjs'[h].position_reference = o.position_reference
      ]_vars

\* the execution predicate as the specification words it
ShouldExecute(o, price) ==
    \/ o.type = "BUY" /\ price <= o.price
    \/ o.type = "SELL" /\ price >= o.price

\* C9: a tick executes a PENDING BUY or SELL order that has not timed out if
\* and only if the tick's price is at or below (BUY), at or above (SELL) the
\* order's price; otherwise the order stays pending with its fields unchanged
\* and without a position.
C9_ExecutionPredicate ==
    [][\A price \in TickPrices, time \in TickTimes, h \in DOMAIN orderObjs :
          LET o == orderObjs[h] IN
          ( /\ o.status = "PENDING"
            /\ InSeq(pending_orders, h)
            /\ o.type \in {"BUY", "SELL"}
            /\ ~Expired(o, time)
            /\ Tick(price, time) )
          => /\ ShouldExecute(o, price) => orderObjs'[h].status = "EXECUTED"
             /\ ~ShouldExecute(o, price) =>
                    (orderObjs'[h] = o /\ InSeq(pending_orders', h))
      ]_vars

\* the orders of type BUY or SELL that this step executes
ExecutedNow ==
    {h \in DOMAIN orderObjs \cap DOMAIN orderObjs' :
        /\ orderObjs[h].type \in {"BUY", "SELL"}
        /\ orderObjs[h].status = "PENDING"
        /\ orderObjs'[h].status = "EXECUTED"}

\* the positions this step adds to self.positions
AddedNow ==
    {positions'[i] : i \in DOMAIN positions'} \ {positions[i] : i \in DOMAIN positions}

\* C10: a step that executes a BUY or SELL order creates for it one new
\* position with the order's type, price, quantity, stop-loss and
\* take-profit, sets the order's position reference to it and removes the
\* order from the pending orders; the position is ACTIVE and once in
\* self.positions, unless the same update has already closed it at its
\* stop-loss or take-profit.  Every position a step adds to self.positions is
\* the one of an order the step executes, and two executed BUY or SELL orders
\* never refer to the same position.
C10_ExecutionOpensPosition ==
    [][/\ \A h \in ExecutedNow :
            LET o == orderObjs[h]
                p == orderObjs'[h].position_reference
            IN  /\ p \in DOMAIN positionObjs' \ DOMAIN positionObjs
                /\ positionObjs'[p].type = o.type
                /\ positionObjs'[p].open_price = o.price
                /\ positionObjs'[p].quantity = o.quantity
                /\ positionObjs'[p].sl = o.sl
                /\ positionObjs'[p].tp = o.tp
                /\ ~InSeq(pending_orders', h)
                /\ \/ /\ positionObjs'[p].status = "ACTIVE"
                      /\ Cardinality({i \in DOMAIN positions' : positions'[i] = p}) = 1
                   \/ /\ positionObjs'[p].status = "CLOSED"
                      /\ positionObjs'[p].reason
                            \in {"Stop Loss triggered", "Take Profit triggered"}
                      /\ \E price \in TickPrices, time \in TickTimes :
                            UpdateCall(TRUE, price, time)
       /\ \A p \in AddedNow :
            \E h \in ExecutedNow : orderObjs'[h].position_reference = p
       /\ \A p \in DOMAIN positionObjs' \ DOMAIN positionObjs :
            \/ positionObjs'[p].cut_from # 0
            \/ Cardinality({h \in ExecutedNow :
                                orderObjs'[h].position_reference = p}) = 1
       /\ \A g, h \in DOMAIN orderObjs' :
            ( /\ g # h
              /\ orderObjs'[g].status = "EXECUTED"
              /\ orderObjs'[h].status = "EXECUTED"
              /\ orderObjs'[g].type \in {"BUY", "SELL"}
              /\ orderObjs'[h].type \in {"BUY", "SELL"} )
            => orderObjs'[g].position_reference # orderObjs'[h].position_reference
      ]_vars

\* two executed BUY or SELL orders, the position of one ACTIVE in
\* self.positions
C10_Witness ==
    \E g, h \in DOMAIN orderObjs :
        /\ g # h
        /\ orderObjs[g].status = "EXECUTED" /\ orderObjs[g].type \in {"BUY", "SELL"}
        /\ orderObjs[h].status = "EXECUTED" /\ orderObjs[h].type \in {"BUY", "SELL"}
        /\ positionObjs[orderObjs[h].position_reference].status = "ACTIVE"
        /\ InSeq(positions, orderObjs[h].position_reference)

\* realized profit or loss as the specification words it
PnL(type, open_price, close_price, quantity) ==
    IF type = "BUY" THEN (close_price - open_price) * quantity
    ELSE (open_price - close_price) * quantity

\* the position_id values in use
PositionIds == {positionObjs[h].position_id : h \in DOMAIN positionObjs}

\* position t is partially closed by this step: quantity is cut from it into a
\* new closed record, closed at price and close_time with the reason suffixed
PartiallyClosed(t, price, quantity, close_time, reason) ==
    LET p == positionObjs[t]
        s == Len(positionObjs) + 1
    IN  /\ DOMAIN positionObjs' = 1 .. s
        /\ positionObjs'[s].status = "CLOSED"
        /\ positionObjs'[s].position_id \notin PositionIds
        /\ positionObjs'[s].type = p.type
        /\ positionObjs'[s].open_price = p.open_price
        /\ positionObjs'[s].open_time = p.open_time
        /\ positionObjs'[s].quantity = quantity
        /\ positionObjs'[s].close_price = price
        /\ positionObjs'[s].close_time = close_time
        /\ positionObjs'[s].profit_loss = PnL(p.type, p.open_price, price, quantity)
        /\ positionObjs'[s].reason = reason \o " - Partial Close"
        /\ positionObjs'[t] = [p EXCEPT !.quantity = p.quantity - quantity]
        /\ \A h \in DOMAIN positionObjs \ {t} : positionObjs'[h] = positionObjs[h]
        /\ positions' = positions
        /\ InSeq(positions', t)
        /\ ~InSeq(positions', s)

\* C11: a partial close (0 < quantity < the position's quantity) of an ACTIVE
\* position, by a close_position call or by the execution of a linked CLOSE
\* order, creates exactly one new CLOSED position with a fresh id, the
\* original's type, open price and open time, the closed quantity, the profit
\* or loss of that quantity and the reason suffixed with " - Partial Close";
\* the original keeps every field but its quantity, which decreases by the
\* closed quantity, and stays ACTIVE in self.positions.
C11_PartialClose ==
    [][/\ \A price \in ClosePrices, quantity \in CloseQuantities,
             close_time \in CloseTimes, reason \in ManualReasons,
             position \in {0} \cup Opened :
            LET target == CloseTarget(position) IN
            ( /\ target # 0
              /\ positionObjs[target].status = "ACTIVE"
              /\ 0 < quantity /\ quantity < positionObjs[target].quantity
              /\ ClosePositionCall(TRUE, price, quantity, close_time, reason, position) )
            => PartiallyClosed(target, price, quantity, close_time, reason)
       /\ \A order \in DOMAIN orderObjs, now \in CloseTimes :
            LET o == orderObjs[order] IN
            ( /\ o.status = "PENDING" /\ o.type = "CLOSE" /\ o.position_reference # 0
              /\ positionObjs[o.position_reference].status = "ACTIVE"
              /\ 0 < o.quantity
              /\ o.quantity < positionObjs[o.position_reference].quantity
              /\ ExecuteOrderCall(TRUE, order, now) )
            => PartiallyClosed(o.position_reference, o.price, o.quantity, now,
                               "Closed via linked order")
      ]_vars

\* a manual partial close has cut a record from a position that is still
\* ACTIVE in self.positions
C11_Witness ==
    \E h \in Opened, s \in DOMAIN positionObjs :
        /\ positionObjs[s].cut_from = h
        /\ positionObjs[s].reason = "Manual close - Partial Close"
        /\ positionObjs[s].quantity > 0
        /\ positionObjs[h].status = "ACTIVE"
        /\ positionObjs[h].quantity > 0
        /\ InSeq(positions, h)

\* position t is fully closed in place by this step
FullyClosed(t, price, close_time, reason) ==
    LET p == positionObjs[t] IN
    /\ positionObjs' =
          [positionObjs EXCEPT ![t] =
              [p EXCEPT !.status = "CLOSED",
                        !.close_price = price,
                        !.close_time = close_time,
                        !.reason = reason,
                        !.profit_loss = PnL(p.type, p.open_price, price, p.quantity)]]
    /\ ~InSeq(positions', t)
    /\ Len(positions') = Len(positions) - 1
    /\ \A h \in DOMAIN positionObjs \ {t} : InSeq(positions', h) = InSeq(positions, h)

\* C12: a full close (quantity equal to the position's quantity) of an ACTIVE
\* position, by a close_position call or by the execution of a linked CLOSE
\* order, closes it in place: status CLOSED, close price, close time and
\* reason as given, profit or loss of its quantity; self.positions loses that
\* position and no other, and no position is created.
C12_FullClose ==
    [][/\ \A price \in ClosePrices, quantity \in CloseQuantities,
             close_time \in CloseTimes, reason \in ManualReasons,
             position \in {0} \cup Opened :
            LET target == CloseTarget(position) IN
            ( /\ target # 0
              /\ positionObjs[target].status = "ACTIVE"
              /\ quantity = positionObjs[target].quantity
              /\ ClosePositionCall(TRUE, price, quantity, close_time, reason, position) )
            => FullyClosed(target, price, close_time, reason)
       /\ \A order \in DOMAIN orderObjs, now \in CloseTimes :
            LET o == orderObjs[order] IN
            ( /\ o.status = "PENDING" /\ o.type = "CLOSE" /\ o.position_reference # 0
              /\ positionObjs[o.position_reference].status = "ACTIVE"
              /\ o.quantity = positionObjs[o.position_reference].quantity
              /\ ExecuteOrderCall(TRUE, order, now) )
            => FullyClosed(o.position_reference, o.price, now, "Closed via linked order")
      ]_vars

\* a position an order opened has been closed in full by a manual close
C12_Witness ==
    \E h \in Opened :
        /\ positionObjs[h].status = "CLOSED"
        /\ positionObjs[h].reason = "Manual close"
        /\ ~InSeq(positions, h)

\* C13: the profit or loss of every CLOSED record, a fully closed position or
\* a record cut by a partial close, is (close price - open price) * quantity
\* for a BUY and (open price - close price) * quantity for a SELL.
C13_RealizedPnL ==
    \A h \in DOMAIN positionObjs :
        LET p == positionObjs[h] IN
        p.status = "CLOSED" =>
            p.profit_loss = PnL(p.type, p.open_price, p.close_price, p.quantity)

\* a closed BUY with a loss, and a closed SELL with a non-zero profit or loss
C13_Witness ==
    /\ \E h \in DOMAIN positionObjs :
          /\ positionObjs[h].status = "CLOSED" /\ positionObjs[h].type = "BUY"
          /\ positionObjs[h].profit_loss < 0 /\ positionObjs[h].profit_loss # None
    /\ \E h \in DOMAIN positionObjs :
          /\ positionObjs[h].status = "CLOSED" /\ positionObjs[h].type = "SELL"
          /\ positionObjs[h].profit_loss \notin {0, None}

\* position h is closed in place by this step and has left self.positions
ClosedAt(h, price, close_time, reason) ==
    LET p == positionObjs[h] IN
    /\ positionObjs'[h] =
          [p EXCEPT !.status = "CLOSED",
                    !.close_price = price,
                    !.close_time = close_time,
                    !.reason = reason,
                    !.profit_loss = PnL(p.type, p.open_price, price, p.quantity)]
    /\ ~InSeq(positions', h)

\* C14: for an ACTIVE BUY position of self.positions with stop-loss S and
\* take-profit T, S < open price < T, a call of _process_active_positions (the
\* position tick, also the second half of update) at a price <= S closes it in
\* full at S with reason "Stop Loss triggered", at a price >= T closes it in
\* full at T with reason "Take Profit triggered", and at a price strictly
\* between leaves it ACTIVE in self.positions with every field unchanged.
C14_BuyStopsTrigger ==
    [][\A price \in TickPrices, time \in TickTimes, h \in DOMAIN positionObjs :
          LET p == positionObjs[h] IN
          ( /\ InSeq(positions, h)
            /\ p.status = "ACTIVE" /\ p.type = "BUY"
            /\ p.sl # None /\ p.tp # None
            /\ p.sl < p.open_price /\ p.open_price < p.tp
            /\ ProcessActivePositionsCall(TRUE, price, time) )
          => /\ price <= p.sl => ClosedAt(h, p.sl, time, "Stop Loss triggered")
             /\ price >= p.tp => ClosedAt(h, p.tp, time, "Take Profit triggered")
             /\ (p.sl < price /\ price < p.tp) =>
                    (positionObjs'[h] = p /\ InSeq(positions', h))
      ]_vars

\* one BUY position was closed at its stop-loss and another at its take-profit
C14_Witness ==
    \E g, h \in Opened :
        /\ positionObjs[g].type = "BUY" /\ positionObjs[g].status = "CLOSED"
        /\ positionObjs[g].reason = "Stop Loss triggered"
        /\ positionObjs[g].close_price = positionObjs[g].sl
        /\ positionObjs[h].type = "BUY" /\ positionObjs[h].status = "CLOSED"
        /\ positionObjs[h].reason = "Take Profit triggered"
        /\ positionObjs[h].close_price = positionObjs[h].tp

\* the sequence without its elements equal to x
Without(seq, x) == SelectSeq(seq, LAMBDA y : y # x)

\* C15: cancel_order on a PENDING order makes it CANCELLED with the given
\* reason, changes no other field and no other order, and removes it from
\* pending_orders; cancel_order on an EXECUTED or CANCELLED order raises
\* nothing and changes nothing: no order, not pending_orders, not the logs.
C15_CancelOrder ==
    [][\A order \in DOMAIN orderObjs, reason \in CancelReasons :
          CancelOrderCall(TRUE, order, reason) =>
            /\ raised' = NoException
            /\ orderObjs[order].status = "PENDING" =>
                  /\ orderObjs' = [orderObjs EXCEPT ![order].status = "CANCELLED",
                                                    ![order].reason = reason]
                  /\ pending_orders' = Without(pending_orders, order)
                  /\ Len(pending_orders') = Len(pending_orders) - 1
            /\ orderObjs[order].status \in Terminal => UNCHANGED ledgerVars
      ]_vars

\* one order was cancelled by the caller and is out of pending_orders, and
\* the other order is EXECUTED
C15_Witness ==
    \E g, h \in DOMAIN orderObjs :
        /\ orderObjs[g].status = "CANCELLED"
        /\ orderObjs[g].reason = "User cancel"
        /\ ~InSeq(pending_orders, g)
        /\ orderObjs[h].status = "EXECUTED"

\* the number of records of a log that carry this value in this field
Records(log, field, id) == Cardinality({i \in DOMAIN log : log[i][field] = id})

\* C16: exactly-once hand-off.  With a working sink, the order history holds
\* one record, equal to the order, for each EXECUTED or CANCELLED order and
\* none for a PENDING order, and nothing else; the closed-position log holds
\* one record, equal to the position, for each CLOSED position (closed in
\* full or cut by a partial close) and none for an ACTIVE one, and nothing
\* else.
C16_ExactlyOnceHandOff ==
    /\ \A h \in DOMAIN orderObjs :
          LET o == orderObjs[h] IN
          /\ o.status \in Terminal =>
                /\ Records(historical_orders, "order_id", o.order_id) = 1
                /\ InSeq(historical_orders, o)
          /\ o.status = "PENDING" =>
                Records(historical_orders, "order_id", o.order_id) = 0
    /\ Len(historical_orders) =
          Cardinality({h \in DOMAIN orderObjs : orderObjs[h].status \in Terminal})
    /\ \A h \in DOMAIN positionObjs :
          LET p == positionObjs[h] IN
          /\ p.status = "CLOSED" =>
                /\ Records(closed_positions, "position_id", p.position_id) = 1
                /\ InSeq(closed_positions, p)
          /\ p.status = "ACTIVE" =>
                Records(closed_positions, "position_id", p.position_id) = 0
    /\ Len(closed_positions) =
          Cardinality({h \in DOMAIN positionObjs : positionObjs[h].status = "CLOSED"})

\* an executed and a cancelled order, a position closed in full and a record
\* cut from it, all four handed off
C16_Witness ==
    /\ Len(historical_orders) = 2
    /\ Len(closed_positions) = 2
    /\ \E h \in DOMAIN orderObjs : orderObjs[h].status = "EXECUTED"
    /\ \E h \in DOMAIN orderObjs : orderObjs[h].status = "CANCELLED"
    /\ \E h \in Opened : positionObjs[h].status = "CLOSED" /\ Slices(h) # {}

\* what a create_order call with arguments a returns in this state
Created(a, creation_time) ==
    create_order(Ledger(TRUE), a.type, a.price, a.quantity, a.sl, a.tp,
                 a.max_time_active, creation_time)

\* a create_order call with arguments a succeeds in this state and appends one
\* new PENDING order with this id and the call's arguments, and changes no
\* other order, no position, not self.positions and not the balance
CreatesWithId(a, creation_time, id) ==
    LET L == Created(a, creation_time)
        h == Len(orderObjs) + 1
    IN  /\ L.raised = NoError
        /\ Len(L.orderObjs) = h
        /\ \A g \in DOMAIN orderObjs : L.orderObjs[g] = orderObjs[g]
        /\ L.orderObjs[h].order_id = id
        /\ L.orderObjs[h].status = "PENDING"
        /\ L.orderObjs[h].type = a.type
        /\ L.orderObjs[h].price = a.price
        /\ L.orderObjs[h].quantity = a.quantity
        /\ L.orderObjs[h].sl = a.sl
        /\ L.orderObjs[h].tp = a.tp
        /\ L.orderObjs[h].max_time_active = a.max_time_active
        /\ L.pending_orders = Append(pending_orders, h)
        /\ L.positionObjs = positionObjs
        /\ L.positions = positions
        /\ L.current_balance = current_balance

\* C17 as stated: in every reachable state a create_order call with valid
\* arguments appends exactly one new PENDING order whose id is one greater
\* than the id given to the previously created order, whatever happened in
\* between, and changes no existing order, no position and not the balance.
C17_NextIdAfterLast ==
    \A a \in CreateArgs, creation_time \in CreationTimes :
        ~Rejectable(a) => CreatesWithId(a, creation_time, last_order_id + 1)

\* C17, amended: in every reachable state a create_order call with valid
\* arguments appends exactly one new PENDING order whose id is one greater
\* than the id of the order created before it since the last reset, 1 when
\* there is none, and changes no existing order, no position and not the
\* balance; the ids of the orders created since the last reset are unique
\* and increase in creation order.
C17_NextIdSinceReset ==
    /\ \A a \in CreateArgs, creation_time \in CreationTimes :
          ~Rejectable(a) =>
              CreatesWithId(a, creation_time,
                            IF orderObjs = <<>> THEN 1
                            ELSE orderObjs[Len(orderObjs)].order_id + 1)
    /\ \A g, h \in DOMAIN orderObjs : g < h => orderObjs[g].order_id < orderObjs[h].order_id

\* two orders were created one after the other, the first is executed by now
C17_Witness ==
    /\ Len(orderObjs) = 2
    /\ orderObjs[1].order_id = 1 /\ orderObjs[2].order_id = 2
    /\ orderObjs[1].status = "EXECUTED"
    /\ orderObjs[2].status = "PENDING"
    /\ last_order_id = 2

ActivePositions == {h \in DOMAIN positionObjs : positionObjs[h].status = "ACTIVE"}

\* the records of the closed-position log with a profit
Winners == {i \in DOMAIN closed_positions : closed_positions[i].profit_loss > 0}

\* C19: in every reachable state calculate_statistics() reports
\* active_positions = the number of ACTIVE positions, closed_positions = the
\* number of records of the closed-position log, total_positions = their sum,
\* total_profit_loss = the sum of profit_loss over the records, and win_rate
\* = (records with profit_loss > 0) / (records), 0 when there is no record.
C19_Statistics ==
    LET st == calculate_statistics(Ledger(TRUE))
        n == Len(closed_positions)
    IN  /\ st.active_positions = Cardinality(ActivePositions)
        /\ st.closed_positions = n
        /\ st.total_positions = Cardinality(ActivePositions) + n
        /\ st.total_profit_loss =
              SumQty([i \in DOMAIN closed_positions |-> closed_positions[i].profit_loss],
                     DOMAIN closed_positions)
        /\ st.win_rate.den # 0
        /\ n = 0 => st.win_rate.num = 0
        /\ n # 0 => st.win_rate.num * n = Cardinality(Winners) * st.win_rate.den

\* one position was opened and closed in full with a profit, and nothing
\* else was closed: win_rate is 1 and total_profit_loss is its profit_loss
C19_Witness ==
    LET st == calculate_statistics(Ledger(TRUE)) IN
    /\ Len(closed_positions) = 1
    /\ \E h \in Opened :
          /\ positionObjs[h].status = "CLOSED"
          /\ positionObjs[h].profit_loss > 0
          /\ st.total_profit_loss = positionObjs[h].profit_loss
    /\ st.win_rate.num = st.win_rate.den

\* C20: a call on the second handler leaves unchanged everything the first
\* handler observes: its objects, lists, balance and counters, the order
\* history and the closed-position log it reads, and the result of its
\* calculate_statistics().
C20_HandlersIsolated ==
    [][OtherStep =>
          /\ UNCHANGED <<orderObjs, positionObjs, pending_orders, positions,
                         current_balance, order_counter, position_counter>>
          /\ UNCHANGED <<historical_orders, closed_positions>>
          /\ calculate_statistics(Ledger(TRUE))' = calculate_statistics(Ledger(TRUE))
      ]_vars

\* the attributes of a handler value, without its two files
InMemory(L) ==
    <<L.orderObjs, L.positionObjs, L.pending_orders, L.positions,
      L.current_balance, L.order_counter, L.position_counter>>

\* the call that gives F with a failing sink gives T with a working one: the
\* same exception or none, the same objects, lists, balance and counters,
\* and the two files as they were before the call
SinkFailureOnlyLosesRecords(F, T) ==
    /\ F.raised = T.raised
    /\ InMemory(F) = InMemory(T)
    /\ F.historical_orders = historical_orders
    /\ F.closed_positions = closed_positions

\* C21: a failing append during cancel_order, _execute_order or
\* close_position raises nothing to the caller and rolls nothing back: the
\* status transition, the removal from pending_orders or positions and the
\* balance update are those of the same call with a working sink, and the
\* files keep their contents (they miss the record).
C21_SinkFailureNonFatal ==
    /\ \A order \in DOMAIN orderObjs, reason \in CancelReasons :
          SinkFailureOnlyLosesRecords(cancel_order(Ledger(FALSE), order, reason),
                                      cancel_order(Ledger(TRUE), order, reason))
    /\ \A order \in DOMAIN orderObjs, now \in CloseTimes :
          SinkFailureOnlyLosesRecords(_execute_order(Ledger(FALSE), order, now),
                                      _execute_order(Ledger(TRUE), order, now))
    /\ \A price \in ClosePrices, quantity \in CloseQuantities,
          close_time \in CloseTimes, reason \in ManualReasons,
          position \in {0} \cup Opened :
          SinkFailureOnlyLosesRecords(
              close_position(Ledger(FALSE), price, quantity, close_time, reason,
                             position),
              close_position(Ledger(TRUE), price, quantity, close_time, reason,
                             position))

\* appends have failed: an order is EXECUTED and out of pending_orders, an
\* order is CANCELLED, a position is CLOSED, out of positions and credited to
\* the balance, and neither file holds a record
C21_Witness ==
    /\ historical_orders = <<>>
    /\ closed_positions = <<>>
    /\ pending_orders = <<>>
    /\ positions = <<>>
    /\ \E h \in DOMAIN orderObjs : orderObjs[h].status = "EXECUTED"
    /\ \E h \in DOMAIN orderObjs : orderObjs[h].status = "CANCELLED"
    /\ \E h \in DOMAIN positionObjs :
          /\ positionObjs[h].status = "CLOSED"
          /\ current_balance = InitialBalance + positionObjs[h].profit_loss
          /\ positionObjs[h].profit_loss # 0

\* the stop-loss and take-profit values, and the prices, modify_position is
\* asked for
StopValues == {1, 3}
ModifyPrices == {None, 1, 3}

Lacking(current_prices) ==
    ~ \/ current_prices.bid # Absent /\ current_prices.ask # Absent
      \/ current_prices.close # Absent

\* the account has the handler, and the handler holds a position
Holding == account.position_handler /\ positions # <<>>

\* the error for missing quotes: ValueError("Missing current prices")
MissingPriceError == "ValueError: Missing current prices"

\* C23: AccountHandler.update with quotes that hold neither a bid/ask pair nor
\* a close price for the symbol of a held position raises the missing-price
\* error and leaves the account as it was: unrealized PnL, equity, exposure,
\* total margin, free margin and margin level.
C23_MissingQuotesFailUpdate ==
    [][\A current_prices \in Quotes :
          (Lacking(current_prices) /\ Holding /\ AccountUpdateCall(current_prices))
          => /\ raised'.error = MissingPriceError
             /\ account' = account
      ]_vars

\* the price a position is marked at: a BUY at the bid, a SELL at the ask,
\* both at the close when there is no bid/ask pair
Mark(type, current_prices) ==
    IF current_prices.bid # Absent /\ current_prices.ask # Absent
    THEN IF type = "BUY" THEN current_prices.bid ELSE current_prices.ask
    ELSE current_prices.close

\* the sum, over the positions of the handler from the i-th on, of their
\* mark-to-market PnL
RECURSIVE MarkToMarket(_, _)
MarkToMarket(current_prices, i) ==
    IF i > Len(positions) THEN 0
    ELSE LET p == positionObjs[positions[i]] IN
         PnL(p.type, p.open_price, Mark(p.type, current_prices), p.quantity)
         + MarkToMarket(current_prices, i + 1)

\* C24: AccountHandler.update with a bid/ask pair or a close for the held
\* positions succeeds, and afterwards the unrealized PnL is the sum over all
\* ACTIVE positions of their mark-to-market PnL (BUY at bid, SELL at ask),
\* every position contributing.
C24_UnrealizedPnLIsSum ==
    [][\A current_prices \in Quotes :
          (~Lacking(current_prices) /\ Holding /\ AccountUpdateCall(current_prices))
          => /\ raised' = NoException
             /\ account'.unrealized_pnl = MarkToMarket(current_prices, 1)
      ]_vars

\* C25: in every state reached by update_realized_pnl, recomputations of the
\* unrealized PnL and reset, equity = current balance + unrealized PnL and
\* current balance = initial balance + realized PnL; and each
\* update_realized_pnl(p) adds p to the realized PnL and to the current
\* balance.
C25_AccountInvariants ==
    /\ [](/\ account.equity = account.current_balance + account.unrealized_pnl
          /\ account.current_balance = InitialBalance + account.realized_pnl)
    /\ [][\A p \in Realizations :
             UpdateRealizedPnlCall(p)
             => /\ account'.realized_pnl = account.realized_pnl + p
                /\ account'.current_balance = account.current_balance + p
         ]_vars

\* a loss and a profit were realized, and the unrealized PnL was recomputed
\* last
C25_Witness ==
    /\ account.realized_pnl = -5
    /\ account.current_balance = 5
    /\ account.equity = 5
    /\ raised.op = "calculate_unrealized_pnl"

\* C26: in every state reached by update_margin_on_position_change,
\* update_realized_pnl and account updates, free margin = equity - total
\* margin, and the margin level is None when the total margin is not
\* positive and 100 * equity / total margin otherwise.
C26_MarginConsistency ==
    /\ account.free_margin = account.equity - account.total_margin
    /\ account.total_margin <= 0 => ~account.margin_level.defined
    /\ account.total_margin > 0 =>
          /\ account.margin_level.defined
          /\ account.margin_level.num * account.total_margin =
                100 * account.equity * account.margin_level.den

\* C27: whenever the total margin is positive, check_margin_call() is true
\* exactly when the margin level is below 100 and trigger_stop_out() exactly
\* when it is below 50, for every margin level, zero and negative ones
\* included; both are false when the margin level is None.
C27_RiskFlags ==
    /\ (account.total_margin > 0 /\ account.margin_level.defined) =>
          /\ check_margin_call(Account) <=> LevelBelow(account.margin_level, 100)
          /\ trigger_stop_out(Account) <=> LevelBelow(account.margin_level, 50)
    /\ ~account.margin_level.defined =>
          ~check_margin_call(Account) /\ ~trigger_stop_out(Account)

\* the larger of two numbers
Max(a, b) == IF a >= b THEN a ELSE b

\* C28: max_drawdown never decreases except by reset():
\* calculate_max_drawdown(max_equity) leaves it at the larger of its value
\* and max_equity - equity, no other call lowers it, and reset() sets it to 0.
C28_MaxDrawdownMonotonic ==
    [][/\ \A max_equity \in MaxEquities :
             CalculateMaxDrawdownCall(max_equity)
             => account'.max_drawdown =
                    Max(account.max_drawdown, max_equity - account.equity)
       /\ AccountReset \/ account'.max_drawdown >= account.max_drawdown
       /\ AccountReset => account'.max_drawdown = 0
      ]_vars

\* a drawdown was recorded and the equity has risen since: no
\* calculate_max_drawdown call of the model would now reach the recorded
\* maximum, and update_realized_pnl was the last call to change the account
C28_Witness ==
    /\ account.max_drawdown > 0
    /\ \A max_equity \in MaxEquities :
          max_equity - account.equity < account.max_drawdown
    /\ account.realized_pnl > 0

\* the profit of the positions that this step closes in place
RECURSIVE CreditedNow(_)
CreditedNow(S) ==
    IF S = {} THEN 0
    ELSE LET h == CHOOSE x \in S : TRUE IN
         (IF positionObjs[h].status = "ACTIVE" /\ positionObjs'[h].status = "CLOSED"
          THEN positionObjs'[h].profit_loss ELSE 0)
         + CreditedNow(S \ {h})

\* C29: when a tick meets both the stop-loss and the take-profit condition of
\* an ACTIVE position (price <= sl and price >= tp), the position is closed
\* once, by the stop-loss: close price = sl, reason "Stop Loss triggered".
\* The take-profit step that follows finds it CLOSED and does nothing: the
\* closed-position log gains one record of it and the balance is credited
\* once with its profit.
C29_StopLossBeforeTakeProfit ==
    [][\A price \in TickPrices, time \in TickTimes, h \in DOMAIN positionObjs :
          LET p == positionObjs[h] IN
          ( /\ InSeq(positions, h)
            /\ p.status = "ACTIVE"
            /\ Truthy(p.sl) /\ price <= p.sl
            /\ Truthy(p.tp) /\ price >= p.tp
            /\ ProcessActivePositionsCall(TRUE, price, time) )
          => /\ ClosedAt(h, p.sl, time, "Stop Loss triggered")
             /\ Records(closed_positions', "position_id", p.position_id)
                   = Records(closed_positions, "position_id", p.position_id) + 1
             /\ Len(closed_positions') - Len(closed_positions)
                   = Cardinality({g \in DOMAIN positionObjs :
                        positionObjs[g].status = "ACTIVE"
                        /\ positionObjs'[g].status = "CLOSED"})
             /\ current_balance'
                   = current_balance + CreditedNow(DOMAIN positionObjs)
      ]_vars

\* a tick closed a position whose take-profit (1, the lowest price of a tick)
\* is not above its stop-loss: both conditions held, and the stop-loss closed it
C29_Witness ==
    \E h \in Opened :
        /\ positionObjs[h].status = "CLOSED"
        /\ positionObjs[h].reason = "Stop Loss triggered"
        /\ positionObjs[h].sl = 3 /\ positionObjs[h].tp = 1
        /\ positionObjs[h].close_price = 3
        /\ positionObjs[h].close_time \in TickTimes
        /\ Records(closed_positions, "position_id", positionObjs[h].position_id) = 1
        /\ current_balance = InitialBalance + positionObjs[h].profit_loss

\* C30: a tick of the orders (_process_pending_orders) executes a PENDING
\* CLOSE or MODIFY order that has not timed out and whose referenced position
\* is ACTIVE: the order becomes EXECUTED and leaves pending_orders; a MODIFY
\* order gives the position its stop-loss and take-profit, a CLOSE order
\* closes the position for the order's quantity at the order's price (in
\* full when the quantities are equal, else the position keeps the rest).
C30_TickExecutesLinkedOrders ==
    [][\A price \in TickPrices, time \in TickTimes, g \in DOMAIN orderObjs :
          LET o == orderObjs[g]
              h == o.position_reference
          IN
          ( /\ o.status = "PENDING"
            /\ InSeq(pending_orders, g)
            /\ o.type \in {"CLOSE", "MODIFY"}
            /\ h # 0
            /\ positionObjs[h].status = "ACTIVE"
            /\ ~Expired(o, time)
            /\ ProcessPendingOrdersCall(TRUE, price, time) )
          => /\ orderObjs'[g].status = "EXECUTED"
             /\ ~InSeq(pending_orders', g)
             /\ o.type = "MODIFY" =>
                   /\ positionObjs'[h].sl = o.sl
                   /\ positionObjs'[h].tp = o.tp
             /\ (o.type = "CLOSE" /\ o.quantity = positionObjs[h].quantity) =>
                   /\ positionObjs'[h].status = "CLOSED"
                   /\ positionObjs'[h].close_price = o.price
                   /\ positionObjs'[h].reason = "Closed via linked order"
             /\ (o.type = "CLOSE" /\ o.quantity < positionObjs[h].quantity) =>
                   /\ positionObjs'[h].status = "ACTIVE"
                   /\ positionObjs'[h].quantity = positionObjs[h].quantity - o.quantity
      ]_vars

\* in the handler T after a tick at this price and time, the order g that was
\* pending before it has been looked at once: cancelled when its lifetime was
\* over, else executed when the execution predicate held, each with one
\* record in the order history, else left as it was in pending_orders
OrderEvaluated(T, g, price, time) ==
    LET o == orderObjs[g] IN
    IF Expired(o, time)
    THEN /\ T.orderObjs[g].status = "CANCELLED"
         /\ ~InSeq(T.pending_orders, g)
         /\ Records(T.historical_orders, "order_id", o.order_id) = 1
    ELSE IF ShouldExecute(o, price)
    THEN /\ T.orderObjs[g].status = "EXECUTED"
         /\ ~InSeq(T.pending_orders, g)
         /\ Records(T.historical_orders, "order_id", o.order_id) = 1
    ELSE /\ T.orderObjs[g] = o
         /\ InSeq(T.pending_orders, g)

\* in the handler T after a position tick at this price and time, the position
\* h that was in self.positions before it has been looked at once: closed at
\* its stop-loss or else at its take-profit when the price met it, with one
\* record in the closed-position log, else left as it was in self.positions
PositionEvaluated(T, h, price, time) ==
    LET p == positionObjs[h] IN
    IF (Truthy(p.sl) /\ price <= p.sl) \/ (Truthy(p.tp) /\ price >= p.tp)
    THEN /\ T.positionObjs[h].status = "CLOSED"
         /\ T.positionObjs[h].close_time = time
         /\ T.positionObjs[h].close_price =
               IF Truthy(p.sl) /\ price <= p.sl THEN p.sl ELSE p.tp
         /\ ~InSeq(T.positions, h)
         /\ Records(T.closed_positions, "position_id", p.position_id) = 1
    ELSE /\ T.positionObjs[h] = p
         /\ InSeq(T.positions, h)

\* C31: snapshot iteration.  In a tick every order that is pending at its
\* start is looked at exactly once and every position that is active at its
\* start is looked at exactly once: none is passed over and none is handled
\* twice, although cancellations, executions and closes of the same tick
\* remove entries from pending_orders and positions.
C31_SnapshotIteration ==
    \A price \in TickPrices, time \in TickTimes :
        /\ LET T == _process_pending_orders(Ledger(TRUE), price, time) IN
           \A i \in DOMAIN pending_orders :
               OrderEvaluated(T, pending_orders[i], price, time)
        /\ LET T == _process_active_positions(Ledger(TRUE), price, time) IN
           \A i \in DOMAIN positions :
               PositionEvaluated(T, positions[i], price, time)
        /\ LET T == update(Ledger(TRUE), price, time) IN
           /\ \A i \in DOMAIN pending_orders :
                 OrderEvaluated(T, pending_orders[i], price, time)
           /\ \A i \in DOMAIN positions :
                 PositionEvaluated(T, positions[i], price, time)

\* the price of a tick meets the stop-loss or the take-profit
StopsMet(sl, tp, price) ==
    (Truthy(sl) /\ price <= sl) \/ (Truthy(tp) /\ price >= tp)

\* C32: update processes the pending orders before the active positions, at
\* the same price: the position that a BUY or SELL order executed by an update
\* opens is looked at for its stop-loss and take-profit in that same update.
\* At the end of the update it is CLOSED, at the time of the update, when the
\* price meets one of its stops (opened and closed within one update), and
\* ACTIVE in self.positions otherwise.
C32_OrdersBeforePositions ==
    \A price \in TickPrices, time \in TickTimes :
        LET T == update(Ledger(TRUE), price, time) IN
        \A g \in DOMAIN orderObjs :
            LET o == orderObjs[g]
                h == T.orderObjs[g].position_reference
            IN  ( /\ o.status = "PENDING"
                  /\ o.type \in {"BUY", "SELL"}
                  /\ T.orderObjs[g].status = "EXECUTED" )
                => /\ h \in DOMAIN T.positionObjs \ DOMAIN positionObjs
                   /\ IF StopsMet(o.sl, o.tp, price)
                      THEN /\ T.positionObjs[h].status = "CLOSED"
                           /\ T.positionObjs[h].close_time = time
                           /\ ~InSeq(T.positions, h)
                      ELSE /\ T.positionObjs[h].status = "ACTIVE"
                           /\ InSeq(T.positions, h)

\* C33: close_position without an explicit position acts on one position only,
\* the first ACTIVE one of self.positions.  With no ACTIVE position the call
\* does nothing and raises nothing.  Otherwise every other position is left as
\* it was and stays where it was in self.positions; a quantity above the first
\* ACTIVE position's raises the capacity error and changes nothing, even when
\* a later position could absorb it; a smaller quantity is cut from that
\* position, which stays ACTIVE; an equal quantity closes it.
C33_CloseFirstActiveOnly ==
    \A price \in ClosePrices, quantity \in CloseQuantities,
       close_time \in CloseTimes, reason \in ManualReasons :
        LET L == Ledger(TRUE)
            T == close_position(L, price, quantity, close_time, reason, 0)
            t == CloseTarget(0)
        IN  IF t = 0 THEN T = L
            ELSE
            /\ \A h \in DOMAIN positionObjs \ {t} :
                  /\ T.positionObjs[h] = positionObjs[h]
                  /\ InSeq(T.positions, h) <=> InSeq(positions, h)
            /\ quantity > positionObjs[t].quantity
                  => T = [L EXCEPT !.raised = CapacityError]
            /\ quantity < positionObjs[t].quantity
                  => /\ T.raised = NoError
                     /\ T.positionObjs[t] =
                           [positionObjs[t] EXCEPT !.quantity = @ - quantity]
                     /\ T.positions = positions
                     /\ Len(T.positionObjs) = Len(positionObjs) + 1
            /\ quantity = positionObjs[t].quantity
                  => /\ T.raised = NoError
                     /\ T.positionObjs[t].status = "CLOSED"
                     /\ ~InSeq(T.positions, t)
                     /\ Len(T.positionObjs) = Len(positionObjs)

\* close_position has raised the capacity error while the first ACTIVE position
\* holds less than a later ACTIVE one
C33_Witness ==
    /\ raised = ValueError("close_position")
    /\ \E i, j \in DOMAIN positions :
          /\ i < j
          /\ positions[i] = CloseTarget(0)
          /\ positionObjs[positions[j]].status = "ACTIVE"
          /\ positionObjs[positions[i]].quantity < positionObjs[positions[j]].quantity

\* the quantities close_position should reject
MalformedQuantities == {-1, 0}

\* C34: close_position with a quantity <= 0, on an ACTIVE position, is
\* rejected before anything changes: it raises, no closed record is created
\* or persisted, no position changes (the target's quantity does not grow)
\* and the balance is what it was.
C34_MalformedCloseRejected ==
    \A price \in ClosePrices, quantity \in MalformedQuantities,
       close_time \in CloseTimes, reason \in ManualReasons,
       position \in {0} \cup Opened :
        LET L == Ledger(TRUE)
            T == close_position(L, price, quantity, close_time, reason, position)
            t == CloseTarget(position)
        IN  (t # 0 /\ positionObjs[t].status = "ACTIVE")
            => /\ T.raised # NoError
               /\ T.positionObjs = positionObjs
               /\ T.closed_positions = closed_positions
               /\ T.current_balance = current_balance

\* C35: update is an atomic batch step.  A call that raises leaves the orders,
\* the positions, the balance, the counters and the persisted logs exactly as
\* they were before the call.
C35_UpdateAtomic ==
    \A price \in TickPrices, time \in TickTimes :
        LET L == Ledger(TRUE)
            T == update(L, price, time)
        IN  T.raised # NoError => [T EXCEPT !.raised = NoError] = L

\* the sum of the profit_loss of the CLOSED records among objs[i ..]
RECURSIVE ClosedProfit(_, _)
ClosedProfit(objs, i) ==
    IF i > Len(objs) THEN 0
    ELSE (IF objs[i].status = "CLOSED" THEN objs[i].profit_loss ELSE 0)
         + ClosedProfit(objs, i + 1)

\* C36: balance accounting.  current_balance is initial_balance plus the sum
\* of the profit_loss of every closed record made since the last reset, full
\* closes and slices of partial closes alike, and those records are the ones
\* of the closed-positions log: each close is credited once, and nothing else
\* (create, edit, cancel, modify, the opening of a position) moves the balance.
C36_BalanceAccounting ==
    /\ current_balance = InitialBalance + ClosedProfit(positionObjs, 1)
    /\ current_balance = InitialBalance + SumProfitLoss(closed_positions, 1)

\* a slice of a partial close and a full close have both been credited
C36_Witness ==
    /\ current_balance # InitialBalance
    /\ \E i, j \in DOMAIN closed_positions :
          /\ closed_positions[i].cut_from # 0
          /\ closed_positions[j].cut_from = 0
          /\ closed_positions[i].profit_loss # 0
          /\ closed_positions[j].profit_loss # 0

\* a sequence without a repeated element
NoDuplicates(s) == \A i, j \in DOMAIN s : s[i] = s[j] => i = j

\* C37: the live sets.  Every order of self.pending_orders is PENDING and
\* every position of self.positions is ACTIVE with a quantity above zero;
\* neither list holds an element twice; no EXECUTED or CANCELLED order and no
\* CLOSED position is left in them.
C37_LiveSets ==
    /\ \A i \in DOMAIN pending_orders :
          orderObjs[pending_orders[i]].status = "PENDING"
    /\ \A i \in DOMAIN positions :
          /\ positionObjs[positions[i]].status = "ACTIVE"
          /\ positionObjs[positions[i]].quantity > 0
    /\ NoDuplicates(pending_orders)
    /\ NoDuplicates(positions)
    /\ \A g \in DOMAIN orderObjs :
          orderObjs[g].status \in {"EXECUTED", "CANCELLED"} => ~InSeq(pending_orders, g)
    /\ \A h \in DOMAIN positionObjs :
          positionObjs[h].status = "CLOSED" => ~InSeq(positions, h)

\* an order is pending beside an executed one, and a position is active
\* beside a closed record
C37_Witness ==
    /\ Len(pending_orders) = 1
    /\ \E g \in DOMAIN orderObjs : orderObjs[g].status = "EXECUTED"
    /\ Len(positions) = 1
    /\ \E h \in DOMAIN positionObjs : positionObjs[h].status = "CLOSED"

\* the stops of position p are on the right side of its open price
StopsInOrder(p) ==
    IF p.type = "BUY"
    THEN /\ p.sl # None => p.sl < p.open_price
         /\ p.tp # None => p.tp > p.open_price
    ELSE /\ p.sl # None => p.sl > p.open_price
         /\ p.tp # None => p.tp < p.open_price

\* C38: every ACTIVE position has its stops, when set, on the right side of
\* its open price: sl < open_price < tp for a BUY, tp < open_price < sl for a
\* SELL, whatever orders were executed and whatever modify_position calls and
\* linked MODIFY orders were applied.
C38_ActiveStopsInOrder ==
    \A i \in DOMAIN positions :
        positionObjs[positions[i]].status = "ACTIVE"
            => StopsInOrder(positionObjs[positions[i]])

\* a SELL with take-profit tp below and stop-loss sl above its price, and a
\* tick price strictly between the two
SellBetween(x, price) ==
    /\ x.type = "SELL"
    /\ Truthy(x.sl) /\ Truthy(x.tp)
    /\ x.tp < price /\ price < x.sl

\* C39: a SELL position between its stops survives the tick.  For an ACTIVE
\* SELL position with tp < open_price < sl, processing the positions at a
\* price strictly between tp and sl leaves the position as it was, ACTIVE and
\* in self.positions; and a SELL order with such stops that an update executes
\* at such a price has its position ACTIVE at the end of that update.
C39_SellBetweenStopsStaysActive ==
    \A price \in TickPrices, time \in TickTimes :
        /\ LET T == _process_active_positions(Ledger(TRUE), price, time) IN
           \A i \in DOMAIN positions :
               LET h == positions[i]
                   p == positionObjs[h]
               IN  ( /\ p.status = "ACTIVE"
                     /\ SellBetween(p, price)
                     /\ p.tp < p.open_price /\ p.open_price < p.sl )
                   => /\ T.positionObjs[h] = p
                      /\ InSeq(T.positions, h)
        /\ LET T == update(Ledger(TRUE), price, time) IN
           \A g \in DOMAIN orderObjs :
               LET o == orderObjs[g]
                   h == T.orderObjs[g].position_reference
               IN  ( /\ o.status = "PENDING"
                     /\ SellBetween(o, price)
                     /\ o.tp < o.price /\ o.price < o.sl
                     /\ T.orderObjs[g].status = "EXECUTED" )
                   => /\ h \in DOMAIN T.positionObjs
                      /\ T.positionObjs[h].status = "ACTIVE"
                      /\ InSeq(T.positions, h)

\* order g is in self.pending_orders' sense pending: it exists and is PENDING
IsPending(g) == g \in DOMAIN orderObjs /\ orderObjs[g].status = "PENDING"

\* order g has just been cancelled by a timeout
TimedOutNow(g) ==
    /\ IsPending(g)
    /\ g \in DOMAIN orderObjs'
    /\ orderObjs'[g].status = "CANCELLED"
    /\ orderObjs'[g].reason = TimeoutReason

\* C40: timeouts.  While ticks keep arriving with growing times, every PENDING
\* order that has a max_time_active eventually is no longer PENDING (it was
\* executed or cancelled), whatever other orders are pending; and an order is
\* cancelled by a timeout only in a tick (update or _process_pending_orders).
C40_TimeoutLiveness ==
    /\ \A g \in 1 .. MaxOrders :
          (IsPending(g) /\ orderObjs[g].max_time_active # None) ~> ~IsPending(g)
    /\ [][\A g \in 1 .. MaxOrders :
            TimedOutNow(g) => \E price \in TickPrices, time \in TickTimes : Tick(price, time)]_vars
====
